---- MODULE Spec2Model ----
(***************************************************************************)
(* Buffer lifecycle and surface commit core of the Mir display server.     *)
(*                                                                         *)
(*   Spec   the Wayland surface (frontend_wayland/wl_surface.cpp): the     *)
(*          pending state and its commit into the current state.           *)
(*   SpecCb the same surface with frame callbacks, the renderer's           *)
(*          on-consumed completions and the executor; SpecDestroy adds     *)
(*          callback resources destroyed by the client.                    *)
(*   SpecRole the surface being given a role and losing it (set_role,      *)
(*          clear_role) between commits.                                   *)
(*   SpecTree a tree of surfaces and subsurfaces, hit-tested by            *)
(*          subsurface_at and accumulated by populate_surface_data.        *)
(*   SpecQ  the swap queue (graphics/android/fb_simple_swapper.h) with its *)
(*          producers and consumers; SpecQFair schedules them fairly.      *)
(*   SpecDefer, SpecInvalidate, SpecNotify, SpecFold                       *)
(*          the surface under a deferring role, its surface data being     *)
(*          invalidated, its children being notified, and states folded    *)
(*          by update_from.                                                *)
(*   SpecBinder the texture binders of the gbm-kms buffer allocator.       *)
(*   SpecDisplay the X11 display resizing an output (unnamed/part_000).    *)
(***************************************************************************)
EXTENDS Integers, Sequences, FiniteSets, TLC

(* ----------------------------- bounds ---------------------------------- *)
\* Spec: commits of one run
MaxCommits == 2
\* SpecCb: commits and frame callbacks of one run
MaxCbCommits == 3
MaxCbCallbacks == 3
\* SpecDestroy: commits and frame callbacks of one run
MaxDestroyCommits == 2
MaxDestroyCallbacks == 2
\* SpecRole: commits of one run
MaxRoleCommits == 2
\* SpecDefer: commits of one run, frame callbacks, and applications of the
\* state a deferring role holds back
MaxDeferCommits == 3
MaxDeferCallbacks == 1
MaxApplications == 1
\* SpecBinder: calls of gl_bind_to_texture on one binder
MaxBinds == 5
\* SpecFold: states of one sequence
MaxFold == 3
\* SpecNotify: commits of a surface with subsurfaces
MaxNotifyCommits == 2
\* SpecDisplay: handlers registered with the display
MaxHandlers == 2
\* SpecInvalidate: commits of one run
MaxInvalidateCommits == 3
\* the requests of a client between commits, with frame callbacks
MaxReqCommits == 2
MaxReqCallbacks == 1
\* commits between requests the surface ignores
MaxIgnoredCommits == 2
\* commits of a client of an allocator with or without import capabilities
MaxImportCommits == 2
\* commits and callbacks of a surface that is destroyed at some point
MaxLifeCommits == 1
MaxLifeCallbacks == 1
\* submissions of the latency test's client and posts of its display
MaxSubmissions == 6
MaxPosts == 8
\* SpecTree: surfaces of the tree
NumSurfaces == 3
\* SpecQ: buffers the queue is constructed with, and its threads
NumBuffers == 2
NumProducers == 2
NumConsumers == 2

(* ------------------------- optional values ----------------------------- *)
\* std::experimental::optional<T>: <<>> is nullopt, <<v>> holds v.
nullopt == <<>>
make_optional(v) == <<v>>
has_value(o) == o # <<>>
value(o) == o[1]
value_or(o, d) == IF has_value(o) THEN value(o) ELSE d

(* --------------------------- client buffers ---------------------------- *)
\* wl_resource* of a buffer: 0 is nullptr, 1..4 index the table below.
nullptr == 0
Handles == {1, 2, 3, 4}
BufferTable ==
    [h \in Handles |->
        CASE h = 1 -> [shm |-> TRUE, width |-> 4, height |-> 4, stride |-> 16,
                       format |-> "WL_SHM_FORMAT_ARGB8888"]
          [] h = 2 -> [shm |-> TRUE, width |-> 4, height |-> 4, stride |-> 8,
                       format |-> "WL_SHM_FORMAT_ARGB8888"]
          [] h = 3 -> [shm |-> FALSE, width |-> 8, height |-> 8, stride |-> 32,
                       format |-> "WL_SHM_FORMAT_XRGB8888"]
          [] h = 4 -> [shm |-> TRUE, width |-> 4, height |-> 4, stride |-> 8,
                       format |-> "WL_SHM_FORMAT_RGB565"]]

wl_format_to_mir_format(format) ==
    CASE format = "WL_SHM_FORMAT_ARGB8888" -> "mir_pixel_format_argb_8888"
      [] format = "WL_SHM_FORMAT_XRGB8888" -> "mir_pixel_format_xrgb_8888"
      [] format = "WL_SHM_FORMAT_RGB565" -> "mir_pixel_format_rgb_565"
      [] OTHER -> "mir_pixel_format_invalid"

\* MIR_BYTES_PER_PIXEL: 2 for the 16 bit format of the table, 4 for the 32 bit
\* ones.
MIR_BYTES_PER_PIXEL(f) == IF f = "mir_pixel_format_rgb_565" THEN 2 ELSE 4

\* A commit that imports a shared-memory buffer whatever its stride.
accepts_any_stride(h) == FALSE

\* wl_surface.cpp:377, the condition under which commit throws.
invalid_stride(h) ==
    /\ BufferTable[h].shm
    /\ BufferTable[h].stride <
         BufferTable[h].width
           * MIR_BYTES_PER_PIXEL(wl_format_to_mir_format(BufferTable[h].format))

\* stream->stream_size() right after submit_buffer: the size of that buffer.
stream_size(h) == <<BufferTable[h].width, BufferTable[h].height>>

(* ------------------------- committable values -------------------------- *)
Offsets == {<<0, 0>>, <<1, 2>>}
Scales == {1, 2}
Rect == [x |-> 0, y |-> 0, w |-> 2, h |-> 2]
\* rectangle vectors a WlRegion can hold
Regions == {<<>>, <<Rect>>}

\* WlSurfaceState() as default constructed
EmptyState ==
    [buffer |-> nullopt, scale |-> nullopt, offset |-> nullopt,
     input_shape |-> nullopt, frame_callbacks |-> <<>>,
     surface_data_invalidated |-> FALSE]

(* ------------------------------ state ---------------------------------- *)
VARIABLES
    pending,          \* WlSurface::pending
    offset_,          \* WlSurface::offset_
    input_shape,      \* WlSurface::input_shape, optional vector
    scale,            \* scale of the surface's stream
    buffer_size_,     \* WlSurface::buffer_size_, optional size
    frame_callbacks,  \* WlSurface::frame_callbacks, the running list
    destroyed,        \* callbacks whose destroyed flag is set
    submitted,        \* buffers in the stream whose on_consumed has not fired
    consumed,         \* buffers whose on_consumed has fired
    executor,         \* tasks spawned on the executor, in order
    nextCb,           \* id of the next callback resource
    commitCount,      \* commits made so far
    lastCommit,       \* outcome of the latest commit
    lastSet,          \* history: the fields the latest commit's state had set
    registered,       \* history: per callback, the commit that took it
    doneLog           \* history: done events in the order they were sent

surfVars == <<pending, offset_, input_shape, scale, buffer_size_,
              frame_callbacks, destroyed, submitted, consumed, executor,
              nextCb, commitCount, lastCommit, lastSet, registered, doneLog>>
surfVars_but_executor ==
    <<pending, offset_, input_shape, scale, buffer_size_, frame_callbacks,
      destroyed, submitted, consumed, nextCb, commitCount, lastCommit,
      lastSet, registered, doneLog>>

\* The swap queue, its buffers and the threads using it.
VARIABLES
    queue,            \* FBSimpleSwapper::queue, the ready buffers, oldest first
    free,             \* buffers returned to circulation, free for a submission
    held,             \* per consumer, the buffer it has acquired (0: none)
    pc,               \* per thread: "idle", "waiting" on cv, "woken", "cancelled"
    torn,             \* the queue has been torn down
    framedropping,    \* allow_framedropping(true) was called on the stream
    dropped           \* history: a queued buffer was dropped by a submission

qVars == <<queue, free, held, pc, torn, framedropping, dropped>>

\* What the latest commit did to its buffer.
VARIABLES
    posted_error,     \* the protocol error the latest commit posted on its buffer
    lastImport,       \* the allocator call the latest commit made
    lastBufferCommit  \* history: outcome of the latest commit with a buffer field

histVars == <<posted_error, lastImport, lastBufferCommit>>

\* The role of the surface.
VARIABLES
    role,             \* WlSurface::role
    cached,           \* the state a synchronized subsurface role holds back
    called            \* history: the latest set_role / clear_role and its outcome

roleVars == <<role, cached, called>>

\* A tree of surfaces and the latest query on it.
VARIABLES
    tree,             \* per surface: offset_, input_shape, buffer_size_, children
    result            \* the latest subsurface_at / populate_surface_data call

treeVars == <<tree, result>>

\* What the requests without effect left behind.
VARIABLES
    warned,           \* history: the latest attach logged the offset warning
    ignored           \* history: the latest request the surface ignored

reqVars == <<warned, ignored>>

\* The life of the surface and of the native buffers it imported.
VARIABLES
    alive,            \* the WlSurface exists: weak_self is valid
    destroy_calls,    \* history: the calls ~WlSurface made, in order
    native,           \* commits whose buffer buffer_from_resource imported
    dead_buffers,     \* commits whose buffer resource the client destroyed
    release_events    \* history: buffers the release event was posted to

lifeVars == <<alive, destroy_calls, native, dead_buffers, release_events>>

\* The buffer allocator of the platform.
VARIABLES
    egl_display_bound,  \* BufferAllocator::egl_display_bound
    dmabuf_extension,   \* BufferAllocator::dmabuf_extension, nullptr if unset
    wayland_executor    \* BufferAllocator::wayland_executor, nullptr if unset

allocVars == <<egl_display_bound, dmabuf_extension, wayland_executor>>

\* The latency test's Stats and its display.
VARIABLES
    post_count,       \* Stats::post_count
    submissions,      \* Stats::submissions, oldest first
    latency_list,     \* TimeTrackingGroup::latency_list
    submission_count  \* submissions the test's client has made

statVars == <<post_count, submissions, latency_list, submission_count>>

\* What commits hand on: to the role, and from the surface to its children.
VARIABLES
    handed,           \* history: the state the latest commit() handed the role
    handed_callbacks, \* history: the callbacks handed to the role, in order
    notified,         \* history: children the latest commit(state) notified
    invalidated,      \* surface_data_invalidated of the latest commit(state)
    requested,        \* history: the offset and input region the commits made
                      \* to a deferring role have set last, since that
                      \* role applied its cached state
    applications      \* times the deferring role applied its cached state

deferVars == <<handed, handed_callbacks, notified, invalidated, requested,
               applications>>

\* A texture binder over one buffer object, and the EGL images made for it.
VARIABLES
    binder,           \* the class of the binder
    binder_alive,     \* the binder has not been destroyed
    egl_image,        \* EGLImageBufferTextureBinder::egl_image
    egl_display,      \* EGLImageBufferTextureBinder::egl_display
    images_created,   \* images eglCreateImageKHR has returned so far
    images_destroyed, \* images handed to eglDestroyImageKHR, in order
    texture,          \* images handed to glEGLImageTargetTexture2DOES, in order
    thrown            \* what each gl_bind_to_texture threw, in order

binderVars == <<binder, binder_alive, egl_image, egl_display, images_created,
                images_destroyed, texture, thrown>>

\* A sequence of states, folded into one state and applied one by one.
VARIABLES
    states,           \* the states still to take, in order
    taken,            \* history: the states taken so far, in order
    folded,           \* the state update_from has folded the taken ones into
    prior,            \* the surface before any state was applied
    stepwise          \* the surface the taken states were applied to one by one

foldVars == <<states, taken, folded, prior, stepwise>>

\* The X11 display: one output, the display's mutex, the handlers registered
\* for configuration changes, and the thread that resizes the output.
VARIABLES
    mutex,                   \* Display::mutex: the thread that holds it
    mode_size,               \* config->modes[0].size of the output
    view_area_size,          \* size of display_buffer->view_area()
    config_change_handlers,  \* Display::config_change_handlers
    resizing,                \* the call of set_size in progress: its
                             \* position, argument and local handlers
    invoked                  \* history: handlers the latest set_size ran

displayVars == <<mutex, mode_size, view_area_size, config_change_handlers,
                 resizing, invoked>>

vars == <<surfVars, qVars, histVars, roleVars, treeVars, reqVars, lifeVars, allocVars,
          statVars, deferVars, binderVars, foldVars, displayVars>>

Buffers == 1..NumBuffers
Producers == {<<"producer", i>> : i \in 1..NumProducers}
Consumers == {<<"consumer", i>> : i \in 1..NumConsumers}
Threads == Producers \cup Consumers
\* the threads blocked on the condition variable
waiters == {t \in Threads : pc[t] = "waiting"}

\* After construction the queue holds the buffer_list, in order.
QInit ==
    /\ queue = [i \in 1..NumBuffers |-> i]
    /\ free = {}
    /\ held = [c \in Consumers |-> 0]
    /\ pc = [t \in Threads |-> "idle"]
    /\ torn = FALSE
    /\ framedropping \in BOOLEAN
    /\ dropped = FALSE

SurfInit ==
    /\ pending = EmptyState
    /\ offset_ = <<0, 0>>
    /\ input_shape = nullopt
    /\ scale = 1
    /\ buffer_size_ = nullopt
    /\ frame_callbacks = <<>>
    /\ destroyed = {}
    /\ submitted = {}
    /\ consumed = {}
    /\ executor = <<>>
    /\ nextCb = 1
    /\ commitCount = 0
    /\ lastCommit = "none"
    /\ lastSet = {}
    /\ registered = <<>>
    /\ doneLog = <<>>

HistInit ==
    /\ posted_error = "none"
    /\ lastImport = "none"
    /\ lastBufferCommit = "none"

\* Nothing was asked of the surface yet.
ReqInit ==
    /\ warned = FALSE
    /\ ignored = "none"

\* the objects bind_display leaves the allocator pointing to
LinuxDmaBufUnstable == 1
the_wayland_executor == 1

\* The allocator of a platform with both import capabilities, after
\* bind_display.
AllocInit ==
    /\ egl_display_bound = TRUE
    /\ dmabuf_extension = LinuxDmaBufUnstable
    /\ wayland_executor = the_wayland_executor

\* No commit was made yet.
DeferInit ==
    /\ handed = EmptyState
    /\ handed_callbacks = <<>>
    /\ notified = <<>>
    /\ invalidated = FALSE
    /\ requested = [offset |-> nullopt, input_shape |-> nullopt]
    /\ applications = 0

EGL_NO_IMAGE_KHR == 0
BinderClasses == {"NativePixmapTextureBinder", "DMABufTextureBinder"}

\* EGLImageBufferTextureBinder's constructor: egl_image{EGL_NO_IMAGE_KHR},
\* egl_display is left uninitialised
BinderConstructed ==
    /\ binder_alive = TRUE
    /\ egl_image = EGL_NO_IMAGE_KHR
    /\ egl_display = "uninitialised"
    /\ images_created = 0
    /\ images_destroyed = <<>>
    /\ texture = <<>>
    /\ thrown = <<>>

BinderInit == binder = "NativePixmapTextureBinder" /\ BinderConstructed

\* a surface as constructed: unmapped, at the origin, scale 1
NewSurface ==
    [buffer |-> nullptr, scale |-> 1, offset_ |-> <<0, 0>>,
     input_shape |-> nullopt, frame_callbacks |-> <<>>]

\* No states to fold.
FoldInit ==
    /\ states = <<>>
    /\ taken = <<>>
    /\ folded = EmptyState
    /\ prior = NewSurface
    /\ stepwise = NewSurface

\* sizes of the output's window
Sizes == {<<640, 480>>, <<800, 600>>}
\* what a registered handler calls on the display
DisplayCalls == {"configuration", "configure", "for_each_display_sync_group"}

\* no call of set_size has been made
NoResize == [pc |-> "idle", size |-> <<640, 480>>, handlers |-> <<>>, next |-> 1]

\* Display::Display with one requested size: the output has that size, no
\* handler is registered, nobody holds the mutex.
DisplayInit ==
    /\ mutex = "unlocked"
    /\ mode_size = <<640, 480>>
    /\ view_area_size = <<640, 480>>
    /\ config_change_handlers = <<>>
    /\ resizing = NoResize
    /\ invoked = <<>>

\* Stats as constructed: nothing posted, nothing submitted.
StatInit ==
    /\ post_count = 0
    /\ submissions = <<>>
    /\ latency_list = <<>>
    /\ submission_count = 0

\* The surface as constructed, with nothing imported.
LifeInit ==
    /\ alive = TRUE
    /\ destroy_calls = <<>>
    /\ native = {}
    /\ dead_buffers = {}
    /\ release_events = <<>>

\* The roles a surface can be given; a subsurface starts synchronized.
Roles == {"toplevel", "subsurface"}

\* WlSurface's constructor: role{&null_role}
RoleInit ==
    /\ role = "null_role"
    /\ cached = EmptyState
    /\ called = [request |-> "none", role |-> "null_role", error |-> "none"]

\* One surface without subsurfaces, nothing asked of it.
TreeInit ==
    /\ tree = <<>>
    /\ result = [op |-> "none"]

(* ----------------------------- geometry -------------------------------- *)
\* geom::Point - geom::Displacement, geom::Displacement + geom::Displacement
minus(a, b) == <<a[1] - b[1], a[2] - b[2]>>
plus(a, b) == <<a[1] + b[1], a[2] + b[2]>>

max(a, b) == IF a >= b THEN a ELSE b
min(a, b) == IF a <= b THEN a ELSE b

\* geom::Rectangle{top_left, size}
Rectangle(top_left, size) ==
    [x |-> top_left[1], y |-> top_left[2], w |-> size[1], h |-> size[2]]

\* geom::Rectangle::intersection_with: the default rectangle when the two do
\* not overlap
intersection_with(a, b) ==
    LET l == max(a.x, b.x)
        r == min(a.x + a.w, b.x + b.w)
        t == max(a.y, b.y)
        d == min(a.y + a.h, b.y + b.h)
    IN  IF l < r /\ t < d
        THEN [x |-> l, y |-> t, w |-> r - l, h |-> d - t]
        ELSE Rectangle(<<0, 0>>, <<0, 0>>)

\* geom::Rectangle::contains(Point): right and bottom edges excluded
contains(rect, point) ==
    /\ rect.x <= point[1] /\ point[1] < rect.x + rect.w
    /\ rect.y <= point[2] /\ point[2] < rect.y + rect.h

(* -------------------------- surface trees ------------------------------ *)
Surfaces == 1..NumSurfaces

\* a rectangle that reaches beyond a 4x4 buffer
BigRect == [x |-> 2, y |-> 2, w |-> 4, h |-> 4]

\* Current states commits leave a surface in: offset_, input_shape and
\* buffer_size_.
SurfaceStates ==
    { [offset_ |-> <<0, 0>>, input_shape |-> make_optional(<<Rect>>),
       buffer_size_ |-> nullopt],
      [offset_ |-> <<0, 0>>, input_shape |-> nullopt, buffer_size_ |-> nullopt],
      [offset_ |-> <<1, 2>>, input_shape |-> nullopt,
       buffer_size_ |-> make_optional(<<4, 4>>)],
      [offset_ |-> <<0, 0>>, input_shape |-> make_optional(<<BigRect>>),
       buffer_size_ |-> make_optional(<<4, 4>>)],
      [offset_ |-> <<1, 2>>, input_shape |-> make_optional(<<>>),
       buffer_size_ |-> make_optional(<<8, 8>>)] }

\* the points and parent offsets the tree is asked about
Points == {<<0, 0>>, <<2, 3>>, <<3, 5>>, <<5, 5>>}
ParentOffsets == {<<0, 0>>, <<3, 1>>}

elements(q) == {q[i] : i \in DOMAIN q}
reversed(q) == [i \in DOMAIN q |-> q[Len(q) + 1 - i]]

\* A surface treated as mapped whatever its buffer_size_.
treated_as_mapped(s) == TRUE

\* subsurface_at, line 115
mapped(s) == has_value(tree[s].buffer_size_)

\* A point tested as it comes, not translated by the surface's offset.
untranslated_point(s, point) == point

\* subsurface_at, line 120
local_point(s, point) == minus(point, tree[s].offset_)

\* Children tested in the order they were added.
insertion_order(children) == children

\* subsurface_at, line 122: rbegin to rend
hit_order(children) == reversed(children)

\* subsurface_at, lines 127-132: the surface's own input shape accepts point
accepts(s, point) ==
    LET surface_rect == Rectangle(<<0, 0>>, value_or(tree[s].buffer_size_, <<0, 0>>))
        shape == value_or(tree[s].input_shape, <<surface_rect>>)
    IN  \E i \in DOMAIN shape :
            contains(intersection_with(shape[i], surface_rect), point)

\* WlSurface::subsurface_at; a child WlSubsurface forwards to its surface
RECURSIVE subsurface_at(_, _)
subsurface_at(s, point) ==
    IF ~mapped(s) THEN nullopt
    ELSE LET p == local_point(s, point)
             order == hit_order(tree[s].children)
             hits == [i \in DOMAIN order |-> subsurface_at(order[i], p)]
             found == {i \in DOMAIN order : has_value(hits[i])}
         IN  IF found # {}
             THEN hits[CHOOSE i \in found : \A j \in found : i <= j]
             ELSE IF accepts(s, p) THEN make_optional(s)
             ELSE nullopt

\* An explicitly empty input shape that adds no rectangle.
no_rect == <<>>

\* populate_surface_data, lines 205-208
zero_size_rect == <<Rectangle(<<0, 0>>, <<0, 0>>)>>

\* populate_surface_data, lines 191-213: the rectangles surface s adds to the
\* accumulator at offset
own_input_rects(s, offset) ==
    LET surface_rect == Rectangle(plus(<<0, 0>>, offset),
                                  value_or(tree[s].buffer_size_, <<0, 0>>))
        shape == value_or(tree[s].input_shape, <<>>)
    IN  IF has_value(tree[s].input_shape)
        THEN [i \in DOMAIN shape |->
                 intersection_with(
                     [shape[i] EXCEPT !.x = @ + offset[1], !.y = @ + offset[2]],
                     surface_rect)]
             \o (IF shape = <<>> THEN zero_size_rect ELSE <<>>)
        ELSE <<surface_rect>>

\* Children populated at the offset of the parent's parent.
uncumulated_offset(parent_offset, offset) == parent_offset

\* populate_surface_data, line 217: the offset handed to the children
cumulative_offset(parent_offset, offset) == offset

\* WlSurface::populate_surface_data, acc holding the two vectors; a child
\* WlSubsurface forwards to its surface
RECURSIVE populate_surface_data(_, _, _)
RECURSIVE populate_children(_, _, _)
populate_surface_data(s, acc, parent_offset) ==
    LET offset == plus(parent_offset, tree[s].offset_)
        own == [buffer_streams |->
                    Append(acc.buffer_streams, [stream |-> s, offset |-> offset]),
                input_shape_accumulator |->
                    acc.input_shape_accumulator \o own_input_rects(s, offset)]
    IN  populate_children(tree[s].children, own,
                          cumulative_offset(parent_offset, offset))

\* lines 215-218
populate_children(children, acc, offset) ==
    IF children = <<>> THEN acc
    ELSE populate_children(Tail(children),
                           populate_surface_data(Head(children), acc, offset),
                           offset)

\* An add_subsurface that appends the child whether it is listed or not.
appends_again(parent, child) ==
    /\ tree' = [tree EXCEPT ![parent].children = Append(@, child)]
    /\ UNCHANGED result
    /\ UNCHANGED <<surfVars, qVars, histVars, roleVars, reqVars, lifeVars, allocVars, statVars, deferVars, binderVars, foldVars, displayVars>>

\* WlSurface::add_subsurface on surface parent
add_subsurface(parent, child) ==
    /\ IF child \in elements(tree[parent].children)
       THEN tree' = tree
       ELSE tree' = [tree EXCEPT ![parent].children = Append(@, child)]
    /\ UNCHANGED result
    /\ UNCHANGED <<surfVars, qVars, histVars, roleVars, reqVars, lifeVars, allocVars, statVars, deferVars, binderVars, foldVars, displayVars>>

\* WlSurface::remove_subsurface on surface parent
remove_subsurface(parent, child) ==
    /\ tree' = [tree EXCEPT ![parent].children = SelectSeq(@, LAMBDA c : c # child)]
    /\ UNCHANGED result
    /\ UNCHANGED <<surfVars, qVars, histVars, roleVars, reqVars, lifeVars, allocVars, statVars, deferVars, binderVars, foldVars, displayVars>>

\* A call of subsurface_at on surface s
call_subsurface_at(s, point) ==
    /\ result' = [op |-> "subsurface_at", surface |-> s, point |-> point,
                  value |-> subsurface_at(s, point)]
    /\ UNCHANGED <<tree, surfVars, qVars, histVars, roleVars, reqVars, lifeVars, allocVars, statVars, deferVars, binderVars, foldVars, displayVars>>

\* A call of populate_surface_data on surface s with empty vectors
call_populate_surface_data(s, parent_offset) ==
    /\ result' = [op |-> "populate_surface_data", surface |-> s,
                  parent_offset |-> parent_offset,
                  value |-> populate_surface_data(s,
                               [buffer_streams |-> <<>>,
                                input_shape_accumulator |-> <<>>],
                               parent_offset)]
    /\ UNCHANGED <<tree, surfVars, qVars, histVars, roleVars, reqVars, lifeVars, allocVars, statVars, deferVars, binderVars, foldVars, displayVars>>

\* The call returns to the frontend's event loop, which runs one request or
\* query at a time.
return_result ==
    /\ result.op # "none"
    /\ result' = [op |-> "none"]
    /\ UNCHANGED <<tree, surfVars, qVars, histVars, roleVars, reqVars, lifeVars, allocVars, statVars, deferVars, binderVars, foldVars, displayVars>>

(* ------------------------ requests of the client ----------------------- *)
\* An attach that takes a non-zero (x, y) for the pending offset.
applies_xy(x, y) ==
    IF x # 0 \/ y # 0 THEN make_optional(<<x, y>>) ELSE pending.offset

\* pending.offset after attach(buffer, x, y): x and y are only compared with
\* zero (lines 249-252)
attach_offset(x, y) == pending.offset

\* WlSurface::attach: a non-zero (x, y) only logs a warning.
attach(buffer, x, y) ==
    /\ warned' = (x # 0 \/ y # 0)
    /\ pending' = [pending EXCEPT !.buffer = make_optional(value_or(buffer, nullptr)),
                                  !.offset = attach_offset(x, y)]
    /\ UNCHANGED <<offset_, input_shape, scale, buffer_size_, frame_callbacks,
                   destroyed, submitted, consumed, executor, nextCb,
                   commitCount, lastCommit, lastSet, registered, doneLog,
                   qVars, histVars, roleVars, treeVars, ignored, lifeVars, allocVars, statVars, deferVars, binderVars, foldVars, displayVars>>

set_pending_offset(offset) ==
    /\ pending' = [pending EXCEPT !.offset = offset]
    /\ UNCHANGED <<offset_, input_shape, scale, buffer_size_, frame_callbacks,
                   destroyed, submitted, consumed, executor, nextCb,
                   commitCount, lastCommit, lastSet, registered, doneLog, qVars, histVars, roleVars, treeVars, reqVars, lifeVars, allocVars, statVars, deferVars, binderVars, foldVars, displayVars>>

\* A set_input_region that takes a null region for no request at all.
unsent_input_shape == nullopt

\* pending.input_shape after set_input_region(null): the outer optional is
\* set, the inner one is not (line 297)
null_input_shape == make_optional(nullopt)

\* region is an optional rectangle vector (the WlRegion's rectangle_vector())
set_input_region(region) ==
    /\ pending' = [pending EXCEPT !.input_shape =
                      IF has_value(region)
                      THEN make_optional(make_optional(value(region)))
                      ELSE null_input_shape]
    /\ UNCHANGED <<offset_, input_shape, scale, buffer_size_, frame_callbacks,
                   destroyed, submitted, consumed, executor, nextCb,
                   commitCount, lastCommit, lastSet, registered, doneLog, qVars, histVars, roleVars, treeVars, reqVars, lifeVars, allocVars, statVars, deferVars, binderVars, foldVars, displayVars>>

\* A set_buffer_scale that sets the stream's scale at once.
sets_scale_at_once(n) ==
    /\ pending' = [pending EXCEPT !.scale = make_optional(n)]
    /\ scale' = n
    /\ UNCHANGED <<offset_, input_shape, buffer_size_, frame_callbacks,
                   destroyed, submitted, consumed, executor, nextCb,
                   commitCount, lastCommit, lastSet, registered, doneLog,
                   qVars, histVars, roleVars, treeVars, reqVars, lifeVars, allocVars, statVars, deferVars, binderVars, foldVars, displayVars>>

set_buffer_scale(n) ==
    /\ pending' = [pending EXCEPT !.scale = make_optional(n)]
    /\ UNCHANGED <<offset_, input_shape, scale, buffer_size_, frame_callbacks,
                   destroyed, submitted, consumed, executor, nextCb,
                   commitCount, lastCommit, lastSet, registered, doneLog, qVars, histVars, roleVars, treeVars, reqVars, lifeVars, allocVars, statVars, deferVars, binderVars, foldVars, displayVars>>

\* WlSurface::damage, damage_buffer, set_opaque_region, set_buffer_transform:
\* the arguments are cast to void.
damage(x, y, width, height) ==
    /\ ignored' = "damage"
    /\ UNCHANGED <<surfVars, qVars, histVars, roleVars, treeVars, warned, lifeVars, allocVars, statVars, deferVars, binderVars, foldVars, displayVars>>

damage_buffer(x, y, width, height) ==
    /\ ignored' = "damage_buffer"
    /\ UNCHANGED <<surfVars, qVars, histVars, roleVars, treeVars, warned, lifeVars, allocVars, statVars, deferVars, binderVars, foldVars, displayVars>>

set_opaque_region(region) ==
    /\ ignored' = "set_opaque_region"
    /\ UNCHANGED <<surfVars, qVars, histVars, roleVars, treeVars, warned, lifeVars, allocVars, statVars, deferVars, binderVars, foldVars, displayVars>>

set_buffer_transform(transform) ==
    /\ ignored' = "set_buffer_transform"
    /\ UNCHANGED <<surfVars, qVars, histVars, roleVars, treeVars, warned, lifeVars, allocVars, statVars, deferVars, binderVars, foldVars, displayVars>>

\* WlSurface::frame: a new callback resource joins the pending list.
frame ==
    /\ pending' = [pending EXCEPT !.frame_callbacks = Append(@, nextCb)]
    /\ nextCb' = nextCb + 1
    /\ UNCHANGED <<offset_, input_shape, scale, buffer_size_, frame_callbacks,
                   destroyed, submitted, consumed, executor,
                   commitCount, lastCommit, lastSet, registered, doneLog, qVars, histVars, roleVars, treeVars, reqVars, lifeVars, allocVars, statVars, deferVars, binderVars, foldVars, displayVars>>

\* The callback's resource goes away: its deleted flag becomes true.
destroy_callback(c) ==
    /\ c \in 1..(nextCb - 1)
    /\ c \notin destroyed
    /\ destroyed' = destroyed \cup {c}
    /\ UNCHANGED <<pending, offset_, input_shape, scale, buffer_size_,
                   frame_callbacks, submitted, consumed, executor, nextCb,
                   commitCount, lastCommit, lastSet, registered, doneLog, qVars, histVars, roleVars, treeVars, reqVars, lifeVars, allocVars, statVars, deferVars, binderVars, foldVars, displayVars>>

(* ------------------------------ commit --------------------------------- *)
\* A send_frame_callbacks that does not look at the destroyed flag.
all_callbacks(list) == list

\* The callbacks of list that send_frame_callbacks sends done to.
live_callbacks(list) == SelectSeq(list, LAMBDA c : c \notin destroyed)

\* The done events one run of send_frame_callbacks adds for list: cause is
\* "commit" (sent inside commit number n) or "task" (sent by an executor task).
next_batch == IF doneLog = <<>> THEN 1 ELSE doneLog[Len(doneLog)].batch + 1
done_events(list, cause, n) ==
    [i \in 1..Len(live_callbacks(list)) |->
        [cb |-> live_callbacks(list)[i],
         cause |-> cause,
         commit |-> n,
         batch |-> next_batch,
         own_consumed |-> \E j \in 1..Len(registered) :
                             /\ j = live_callbacks(list)[i]
                             /\ registered[j].buffer \in consumed,
         any_consumed |-> consumed # {}]]

\* A commit that replaces the running list instead of appending to it.
replaced_callbacks(state) == state.frame_callbacks

\* commit(state), line 336
appended_callbacks(state) == frame_callbacks \o state.frame_callbacks

\* A commit that resets an offset the state leaves unset.
reset_offset(state) == value_or(state.offset, <<0, 0>>)

\* A commit that multiplies the stream's scale by the one it is given.
multiplied_scale(state) ==
    IF has_value(state.scale) THEN scale * value(state.scale) ELSE scale

\* commit(state), lines 338-345
committed_offset(state) == value_or(state.offset, offset_)
committed_input_shape(state) == value_or(state.input_shape, input_shape)
committed_scale(state) == value_or(state.scale, scale)

\* commit(state) attaches a buffer resource (lines 357-429)
attaches_buffer(state) == has_value(state.buffer) /\ value(state.buffer) # nullptr

\* commit(state) throws "Buffer has invalid stride" (lines 377-387)
commit_throws(state) == attaches_buffer(state) /\ invalid_stride(value(state.buffer))

\* wl_resource_post_error of commit(state) (lines 378-383)
posted_error_of(state) ==
    IF commit_throws(state) THEN "WL_SHM_ERROR_INVALID_STRIDE" ELSE "none"

\* the allocator call commit(state) imports its buffer with (lines 388, 409)
allocator_call(state) ==
    IF ~attaches_buffer(state) \/ commit_throws(state) THEN "none"
    ELSE IF BufferTable[value(state.buffer)].shm THEN "buffer_from_shm"
    ELSE "buffer_from_resource"

\* A commit that always sends the callbacks itself.
always_sends_callbacks(state) == TRUE

\* A commit that sends the callbacks itself when it maps an unmapped surface.
sends_callbacks_on_first_map(state) ==
    \/ ~(has_value(state.buffer) /\ value(state.buffer) # nullptr)
    \/ buffer_size_ = nullopt

\* A commit that sends the callbacks itself only without a buffer field.
sends_only_without_buffer_field(state) == ~has_value(state.buffer)

\* commit(state) calls send_frame_callbacks itself (lines 355 and 433)
commit_sends_callbacks(state) == ~attaches_buffer(state)

\* A commit that keeps the mapped size when it attaches none.
keeps_size_on_unmap(state) ==
    IF has_value(state.buffer) /\ value(state.buffer) # nullptr
       /\ ~invalid_stride(value(state.buffer))
    THEN make_optional(stream_size(value(state.buffer)))
    ELSE buffer_size_

\* buffer_size_ after commit(state) (lines 354 and 428)
committed_buffer_size(state) ==
    IF ~has_value(state.buffer) \/ commit_throws(state) THEN buffer_size_
    ELSE IF value(state.buffer) = nullptr THEN nullopt
    ELSE make_optional(stream_size(value(state.buffer)))

\* BufferAllocator::buffer_from_resource: dmabuf_extension is dereferenced
\* whether bind_display set it or not (line 375); a call through the null
\* pointer is undefined, the process crashes or the call goes on to the EGL
\* import of the buffer.
buffer_from_resource ==
    IF dmabuf_extension = nullptr THEN {"crashed", "imported"} ELSE {"imported"}

\* A commit that invalidates the surface data whenever it attaches a buffer.
invalidates_on_every_buffer(state) == attaches_buffer(state)

\* commit(state) calls state.invalidate_surface_data() (lines 423-426): the
\* input shape is the one line 342 has just assigned
invalidates_surface_data(state) ==
    /\ attaches_buffer(state)
    /\ committed_input_shape(state) = nullopt
    /\ make_optional(stream_size(value(state.buffer))) # buffer_size_

\* the children of the surface that commits: it is the first of the tree
children == IF tree = <<>> THEN <<>> ELSE tree[1].children

\* A commit that notifies its children latest first.
notified_latest_first == reversed(children)

\* the children commit(state) calls parent_has_committed on, in order
\* (lines 436-439)
notified_children == children

\* the ways the import of commit(state)'s buffer can end
import_outcomes(state) ==
    IF allocator_call(state) = "buffer_from_resource"
    THEN buffer_from_resource ELSE {"imported"}

\* WlSurface::commit(WlSurfaceState const&), with the outcome of the import
commit_importing(state, outcome) ==
    LET n == commitCount + 1
        list == appended_callbacks(state)
        aborted == commit_throws(state) \/ outcome = "crashed"
        buf == IF attaches_buffer(state) /\ ~aborted THEN n ELSE 0
    IN  /\ commitCount' = n
        /\ lastSet' = {f \in {"buffer", "scale", "offset", "input_shape"} :
                          has_value(state[f])}
        /\ offset_' = committed_offset(state)
        /\ input_shape' = committed_input_shape(state)
        /\ scale' = committed_scale(state)
        /\ buffer_size_' = IF outcome = "crashed" THEN buffer_size_
                           ELSE committed_buffer_size(state)
        /\ lastCommit' = IF commit_throws(state) THEN "invalid_stride"
                         ELSE IF outcome = "crashed" THEN "crashed" ELSE "ok"
        /\ posted_error' = posted_error_of(state)
        /\ lastImport' = allocator_call(state)
        /\ lastBufferCommit' =
              IF ~has_value(state.buffer) THEN lastBufferCommit
              ELSE IF value(state.buffer) = nullptr THEN "unmapped"
              ELSE IF aborted THEN "rejected"
              ELSE "imported"
        /\ submitted' = IF buf # 0 THEN submitted \cup {buf} ELSE submitted
        /\ registered' = registered \o
              [i \in 1..Len(state.frame_callbacks) |->
                  [commit |-> n, buffer |-> buf, waiting |-> submitted']]
        /\ IF commit_sends_callbacks(state)
           THEN /\ frame_callbacks' = <<>>
                /\ doneLog' = doneLog \o done_events(list, "commit", n)
                /\ destroyed' = destroyed \cup {list[i] : i \in 1..Len(list)}
           ELSE /\ frame_callbacks' = list
                /\ UNCHANGED <<doneLog, destroyed>>
        /\ native' = IF allocator_call(state) = "buffer_from_resource" /\ ~aborted
                      THEN native \cup {n} ELSE native
        /\ invalidated' = (state.surface_data_invalidated
                            \/ (~aborted /\ invalidates_surface_data(state)))
        /\ notified' = IF aborted THEN <<>> ELSE notified_children
        /\ UNCHANGED <<consumed, executor, nextCb, qVars, treeVars, reqVars,
                       alive, destroy_calls, dead_buffers, release_events,
                       allocVars, statVars, binderVars, foldVars, displayVars>>

\* WlSurface::commit(WlSurfaceState const&)
commit_state(state) ==
    \E outcome \in import_outcomes(state) : commit_importing(state, outcome)

\* BufferAllocator::bind_display: a failure to bind the EGL display or to
\* create the dmabuf extension is caught and logged. bind_fails and
\* modifiers_missing tell whether mg::wayland::bind_display and the
\* constructor of EXTImageDmaBufImportModifiers throw.
bind_display(bind_fails, modifiers_missing) ==
    /\ egl_display_bound' = IF bind_fails THEN egl_display_bound ELSE TRUE
    /\ dmabuf_extension' = IF modifiers_missing THEN dmabuf_extension
                           ELSE LinuxDmaBufUnstable
    /\ wayland_executor' = the_wayland_executor
    /\ UNCHANGED <<surfVars, qVars, histVars, roleVars, treeVars, reqVars, lifeVars, statVars, deferVars, binderVars, foldVars, displayVars>>

\* An update_from that keeps what target has set.
first_wins(target, source) ==
    [buffer |-> IF has_value(target.buffer) THEN target.buffer ELSE source.buffer,
     scale |-> IF has_value(target.scale) THEN target.scale ELSE source.scale,
     offset |-> IF has_value(target.offset) THEN target.offset ELSE source.offset,
     input_shape |-> IF has_value(target.input_shape)
                     THEN target.input_shape ELSE source.input_shape,
     frame_callbacks |-> target.frame_callbacks \o source.frame_callbacks,
     surface_data_invalidated |->
         IF source.surface_data_invalidated THEN TRUE
         ELSE target.surface_data_invalidated]

\* WlSurfaceState::update_from: target after taking over what source has set
update_from(target, source) ==
    [buffer |-> IF has_value(source.buffer) THEN source.buffer ELSE target.buffer,
     scale |-> IF has_value(source.scale) THEN source.scale ELSE target.scale,
     offset |-> IF has_value(source.offset) THEN source.offset ELSE target.offset,
     input_shape |-> IF has_value(source.input_shape)
                     THEN source.input_shape ELSE target.input_shape,
     frame_callbacks |-> target.frame_callbacks \o source.frame_callbacks,
     surface_data_invalidated |->
         IF source.surface_data_invalidated THEN TRUE
         ELSE target.surface_data_invalidated]

\* The commit of a synchronized subsurface role: the state is held back, the
\* surface is not touched.
subsurface_commit(state) ==
    /\ cached' = update_from(cached, state)
    /\ commitCount' = commitCount + 1
    /\ UNCHANGED <<offset_, input_shape, scale, buffer_size_,
                   frame_callbacks, destroyed, submitted, consumed,
                   executor, nextCb, lastCommit, lastSet, registered,
                   doneLog, qVars, histVars, treeVars, reqVars, lifeVars,
                   allocVars, statVars, notified, invalidated,
                   binderVars, foldVars, displayVars>>

\* role->commit(state): NullWlSurfaceRole::commit forwards to the surface, as
\* a toplevel role does.
role_commit(state) ==
    IF role = "subsurface"
    THEN subsurface_commit(state)
    ELSE /\ commit_state(state)
         /\ UNCHANGED cached

\* pending as WlSurface::commit() hands it to the role (lines 444-451)
state_to_commit ==
    LET p == IF has_value(pending.offset) /\ value(pending.offset) = offset_
             THEN [pending EXCEPT !.offset = nullopt] ELSE pending
    IN  IF has_value(p.input_shape) /\ value(p.input_shape) = input_shape
        THEN [p EXCEPT !.input_shape = nullopt] ELSE p

\* A commit() that leaves the frame callbacks in pending.
keeps_pending_callbacks ==
    [EmptyState EXCEPT !.frame_callbacks = pending.frame_callbacks]

\* pending after commit() (line 455)
reset_pending == EmptyState

\* WlSurface::commit()
commit ==
    /\ pending' = reset_pending
    /\ handed' = state_to_commit
    /\ handed_callbacks' = handed_callbacks \o state_to_commit.frame_callbacks
    /\ requested' =
          IF role = "subsurface"
          THEN [offset |-> IF has_value(pending.offset) THEN pending.offset
                           ELSE requested.offset,
                input_shape |-> IF has_value(pending.input_shape)
                                THEN pending.input_shape
                                ELSE requested.input_shape]
          ELSE requested
    /\ role_commit(state_to_commit)
    /\ UNCHANGED <<role, called, applications>>

\* The deferring role applies what it holds back: the parent of a synchronized
\* subsurface has committed, the cached state is committed to the surface and
\* the cache starts anew.
parent_has_committed ==
    /\ role = "subsurface"
    /\ commit_state(cached)
    /\ cached' = EmptyState
    /\ applications' = applications + 1
    /\ requested' = [offset |-> nullopt, input_shape |-> nullopt]
    /\ UNCHANGED <<pending, role, called, handed, handed_callbacks>>

(* ------------------------------- roles --------------------------------- *)
\* A set_role that replaces the role the surface has.
overwrites_role == TRUE

\* set_role assigns the role (line 143: otherwise it throws)
may_set_role == role = "null_role"

\* WlSurface::set_role
set_role(role_) ==
    /\ IF may_set_role
       THEN /\ role' = role_
            /\ called' = [request |-> "set_role", role |-> role_, error |-> "none"]
       ELSE /\ role' = role
            /\ called' = [request |-> "set_role", role |-> role_,
                          error |-> "Surface already has a role"]
    /\ UNCHANGED <<surfVars, qVars, histVars, cached, treeVars, reqVars, lifeVars, allocVars, statVars, deferVars, binderVars, foldVars, displayVars>>

\* A clear_role that leaves the role in place.
keeps_role == role

\* role after clear_role (line 150)
cleared_role == "null_role"

\* WlSurface::clear_role
clear_role ==
    /\ role' = cleared_role
    /\ called' = [request |-> "clear_role", role |-> "null_role", error |-> "none"]
    /\ UNCHANGED <<surfVars, qVars, histVars, cached, treeVars, reqVars, lifeVars, allocVars, statVars, deferVars, binderVars, foldVars, displayVars>>

(* ---------------------- renderer and executor -------------------------- *)
\* An executor that forgets the task it is given.
not_spawned(task) == executor

\* executor->spawn(task): the task is queued behind the ones spawned before
spawn(task) == Append(executor, task)

\* The renderer has used buffer b: its on_consumed spawns a task.
on_consumed(b) ==
    /\ b \in submitted
    /\ submitted' = submitted \ {b}
    /\ consumed' = consumed \cup {b}
    /\ executor' = spawn([run |-> "send_frame_callbacks"])
    /\ UNCHANGED <<pending, offset_, input_shape, scale, buffer_size_,
                   frame_callbacks, destroyed, nextCb, commitCount, lastCommit,
                   lastSet, registered, doneLog, qVars, histVars, roleVars, treeVars, reqVars, lifeVars, allocVars, statVars, deferVars, binderVars, foldVars, displayVars>>

\* The renderer is done with the native buffer b: its on_release spawns a
\* task that posts the release event.
on_release(b) ==
    /\ b \in native
    /\ native' = native \ {b}
    /\ executor' = spawn([run |-> "release", buffer |-> b])
    /\ UNCHANGED <<surfVars_but_executor, qVars, histVars, roleVars, treeVars,
                   reqVars, alive, destroy_calls, dead_buffers, release_events, allocVars, statVars, deferVars, binderVars, foldVars, displayVars>>

\* the release tasks the executor has not run yet
pending_releases ==
    {executor[i].buffer : i \in {j \in DOMAIN executor : executor[j].run = "release"}}

\* The client destroys the resource of a native buffer the renderer holds or
\* whose release is on its way: its deleted flag becomes true.
destroy_buffer(b) ==
    /\ b \in native \cup pending_releases
    /\ b \notin dead_buffers
    /\ dead_buffers' = dead_buffers \cup {b}
    /\ UNCHANGED <<surfVars, qVars, histVars, roleVars, treeVars, reqVars,
                   alive, destroy_calls, native, release_events, allocVars, statVars, deferVars, binderVars, foldVars, displayVars>>

\* A release task that does not look at the buffer's deleted flag.
always_posts(b) == TRUE

\* run_unless(destroyed, ...): the task posts the release event unless the
\* deleted flag of the buffer resource is set when it runs
posts_release(b) == b \notin dead_buffers

\* A task that takes the surface to be there whenever it runs.
runs_on_dead_surface == TRUE

\* the task calls send_frame_callbacks (line 363: if (weak_self))
surface_alive == alive

\* WlSurface::send_frame_callbacks, run by a task
task_send_frame_callbacks ==
    /\ frame_callbacks' = <<>>
    /\ doneLog' = doneLog \o done_events(frame_callbacks, "task", 0)
    /\ destroyed' = destroyed \cup {frame_callbacks[i] : i \in 1..Len(frame_callbacks)}

\* The executor runs its oldest task: the one on_consumed spawned calls
\* send_frame_callbacks if the surface is still there, the one on_release
\* spawned posts the release event unless the buffer resource was destroyed.
run_task ==
    /\ executor # <<>>
    /\ executor' = Tail(executor)
    /\ IF Head(executor).run = "send_frame_callbacks"
       THEN /\ IF surface_alive
               THEN task_send_frame_callbacks
               ELSE UNCHANGED <<frame_callbacks, doneLog, destroyed>>
            /\ UNCHANGED release_events
       ELSE /\ release_events' =
                  IF posts_release(Head(executor).buffer)
                  THEN Append(release_events, Head(executor).buffer)
                  ELSE release_events
            /\ UNCHANGED <<frame_callbacks, doneLog, destroyed>>
    /\ UNCHANGED <<pending, offset_, input_shape, scale, buffer_size_,
                   submitted, consumed, nextCb, commitCount, lastCommit,
                   lastSet, registered, qVars, histVars, roleVars, treeVars, reqVars,
                   alive, destroy_calls, native, dead_buffers, allocVars, statVars, deferVars, binderVars, foldVars, displayVars>>

\* A destructor that leaves the role alone.
destroys_stream_only == <<[call |-> "session->destroy_buffer_stream"]>>

\* the calls of ~WlSurface, in order (lines 104-105)
destructor_calls ==
    <<[call |-> "role->destroy", role |-> role],
      [call |-> "session->destroy_buffer_stream"]>>

\* WlSurface::~WlSurface: the role is told, then the stream is destroyed.
destroy_surface ==
    /\ alive
    /\ alive' = FALSE
    /\ destroy_calls' = destroy_calls \o destructor_calls
    /\ UNCHANGED <<surfVars, qVars, histVars, roleVars, treeVars, reqVars,
                   native, dead_buffers, release_events, allocVars, statVars, deferVars, binderVars, foldVars, displayVars>>


(* ---------------------------- swap queue ------------------------------- *)
\* cv.notify_one() with the threads ws waiting: the sets of threads that may
\* be woken.
notify_all(ws) == {ws}
notify_one(ws) == IF ws = {} THEN {{}} ELSE {{w} : w \in ws}

\* pc after the condition variable woke the threads of woken
wake(woken) == [t \in Threads |-> IF t \in woken THEN "woken" ELSE pc[t]]

\* A submission into a queue without a free buffer replaces the oldest queued
\* buffer instead of waiting: the stream allows frame dropping (mailbox mode).
drops_always == queue # <<>>
may_drop == framedropping /\ queue # <<>>

\* The state of a thread whose wait on cv ended while its condition is false.
returns_anyway == "idle"
wait_again == "waiting"

\* queue after compositor_acquire took its front buffer
keeps_front(q) == q
pop(q) == Tail(q)

\* free after compositor_release(b)
loses_buffer(b) == free
released(b) == free \cup {b}

\* A producer submits a buffer: it takes a free one and queues it; without a
\* free one it waits on cv, unless it may drop a queued one. Called by a
\* thread that is idle or that was woken while waiting.
submit(p) ==
    /\ ~torn
    /\ pc[p] \in {"idle", "woken"}
    /\ IF free # {}
       THEN /\ \E b \in free :
                 /\ free' = free \ {b}
                 /\ queue' = Append(queue, b)
            /\ pc' = [pc EXCEPT ![p] = "idle"]
            /\ UNCHANGED dropped
       ELSE IF may_drop
       THEN /\ queue' = Append(Tail(queue), Head(queue))
            /\ dropped' = TRUE
            /\ pc' = [pc EXCEPT ![p] = "idle"]
            /\ UNCHANGED free
       ELSE /\ pc' = [pc EXCEPT ![p] = IF pc[p] = "woken" THEN wait_again ELSE "waiting"]
            /\ UNCHANGED <<queue, free, dropped>>
    /\ UNCHANGED <<held, torn, framedropping, surfVars, histVars, roleVars, treeVars, reqVars, lifeVars, allocVars, statVars, deferVars, binderVars, foldVars, displayVars>>

\* FBSimpleSwapper::compositor_acquire: waits on cv while the queue is empty,
\* then takes the front buffer. Called by a thread that holds no buffer and is
\* idle, and continued when the thread was woken.
compositor_acquire(c) ==
    /\ ~torn
    /\ pc[c] \in {"idle", "woken"}
    /\ held[c] = 0
    /\ IF queue = <<>>
       THEN /\ pc' = [pc EXCEPT ![c] = IF pc[c] = "woken" THEN wait_again ELSE "waiting"]
            /\ UNCHANGED <<queue, held>>
       ELSE /\ held' = [held EXCEPT ![c] = Head(queue)]
            /\ queue' = pop(queue)
            /\ pc' = [pc EXCEPT ![c] = "idle"]
    /\ UNCHANGED <<free, torn, framedropping, dropped, surfVars, histVars, roleVars, treeVars, reqVars, lifeVars, allocVars, statVars, deferVars, binderVars, foldVars, displayVars>>

\* FBSimpleSwapper::compositor_release: the buffer returns to circulation and
\* one waiter is woken.
compositor_release(c) ==
    /\ ~torn
    /\ pc[c] = "idle"
    /\ held[c] # 0
    /\ free' = released(held[c])
    /\ held' = [held EXCEPT ![c] = 0]
    /\ \E woken \in notify_one(waiters) : pc' = wake(woken)
    /\ UNCHANGED <<queue, torn, framedropping, dropped, surfVars, histVars, roleVars, treeVars, reqVars, lifeVars, allocVars, statVars, deferVars, binderVars, foldVars, displayVars>>

\* The queue is torn down: every thread inside a call returns without a buffer.
teardown ==
    /\ ~torn
    /\ torn' = TRUE
    /\ pc' = [t \in Threads |-> IF pc[t] \in {"waiting", "woken"} THEN "cancelled" ELSE pc[t]]
    /\ UNCHANGED <<queue, free, held, framedropping, dropped, surfVars, histVars, roleVars, treeVars, reqVars, lifeVars, allocVars, statVars, deferVars, binderVars, foldVars, displayVars>>

(* --------------------------- latency test ------------------------------ *)
\* the buffers of the test's stream
expected_client_buffers == 3

\* Stats::record_submission
record_submission(submission_id) ==
    Append(submissions, [buffer_id |-> submission_id, time |-> post_count])

\* Stats::latency_for finds the oldest submission of the buffer: its index,
\* 0 without one
found_submission(submission_id) ==
    LET hits == {i \in DOMAIN submissions : submissions[i].buffer_id = submission_id}
    IN  IF hits = {} THEN 0 ELSE CHOOSE i \in hits : \A j \in hits : i <= j

\* q without its i-th element
erase(q, i) == SubSeq(q, 1, i - 1) \o SubSeq(q, i + 1, Len(q))

\* A compositor that shows the newest ready buffer first.
newest_frame(q) == Len(q)

\* the ready buffer the compositor shows next: the oldest
next_frame(q) == 1

\* the display of the test
display == <<"consumer", 1>>

\* One round of the test's client: it notes the buffer it has drawn into and
\* swaps; mir_buffer_stream_swap_buffers_sync returns once the stream has a
\* free buffer for it.
swap_buffers ==
    /\ free # {}
    /\ \E b \in free :
          /\ submissions' = record_submission(b)
          /\ queue' = Append(queue, b)
          /\ free' = free \ {b}
    /\ submission_count' = submission_count + 1
    /\ UNCHANGED <<held, pc, torn, framedropping, dropped, post_count, latency_list,
                   surfVars, histVars, roleVars, treeVars, reqVars, lifeVars, allocVars, deferVars, binderVars, foldVars, displayVars>>

\* TimeTrackingGroup::post after a composition: the compositor has taken
\* the next ready buffer, if there is one, and given back the one shown
\* before; the latency of the buffer on screen is noted, then the post counted.
post ==
    LET last_id == IF queue # <<>> THEN queue[next_frame(queue)] ELSE held[display]
        i == found_submission(last_id)
    IN  /\ latency_list' = IF i # 0
                           THEN Append(latency_list, post_count - submissions[i].time)
                           ELSE latency_list
        /\ submissions' = IF i # 0 THEN erase(submissions, i) ELSE submissions
        /\ post_count' = post_count + 1
        /\ held' = [held EXCEPT ![display] = last_id]
        /\ queue' = IF queue # <<>> THEN erase(queue, next_frame(queue)) ELSE queue
        /\ free' = IF queue # <<>> /\ held[display] # 0
                   THEN released(held[display]) ELSE free
        /\ UNCHANGED <<pc, torn, framedropping, dropped, submission_count,
                       surfVars, histVars, roleVars, treeVars, reqVars, lifeVars, allocVars, deferVars, binderVars, foldVars, displayVars>>

\* The stream of the test's surface: every buffer free, nothing on screen.
InitLatency ==
    /\ SurfInit /\ HistInit /\ RoleInit /\ TreeInit /\ ReqInit /\ LifeInit
    /\ AllocInit /\ StatInit /\ DeferInit /\ BinderInit /\ FoldInit /\ DisplayInit
    /\ queue = <<>>
    /\ free = 1..expected_client_buffers
    /\ held = [c \in Consumers |-> 0]
    /\ pc = [t \in Threads |-> "idle"]
    /\ torn = FALSE
    /\ framedropping = FALSE
    /\ dropped = FALSE

\* The client submitting as fast as it can, the display posting at its rate.
NextLatency ==
    \/ /\ submission_count < MaxSubmissions
       /\ swap_buffers
    \/ /\ post_count < MaxPosts
       /\ post

SpecLatency == InitLatency /\ [][NextLatency]_vars

\* A WlSurface's stream is created with frame dropping allowed.
Init ==
    /\ SurfInit /\ QInit /\ framedropping = TRUE /\ HistInit /\ RoleInit /\ TreeInit
    /\ ReqInit /\ LifeInit /\ AllocInit /\ StatInit /\ DeferInit /\ BinderInit /\ FoldInit /\ DisplayInit

\* The client setting the committable fields and committing them.
Next ==
    \/ /\ commitCount < MaxCommits
       /\ \E b \in {nullopt} \cup {make_optional(h) : h \in Handles} : attach(b, 0, 0)
    \/ /\ commitCount < MaxCommits
       /\ \E o \in {nullopt} \cup {make_optional(d) : d \in Offsets} : set_pending_offset(o)
    \/ /\ commitCount < MaxCommits
       /\ \E r \in {nullopt} \cup {make_optional(v) : v \in Regions} : set_input_region(r)
    \/ /\ commitCount < MaxCommits
       /\ \E n \in Scales : set_buffer_scale(n)
    \/ /\ commitCount < MaxCommits
       /\ commit

Spec == Init /\ [][Next]_vars

\* The client attaching buffers and asking for frame callbacks, the renderer
\* consuming the submitted buffers and the executor running the spawned tasks.
NextCb ==
    \/ /\ commitCount < MaxCbCommits
       /\ \E b \in {nullopt} \cup {make_optional(h) : h \in {1, 2}} : attach(b, 0, 0)
    \/ /\ commitCount < MaxCbCommits
       /\ nextCb <= MaxCbCallbacks
       /\ frame
    \/ /\ commitCount < MaxCbCommits
       /\ commit
    \/ \E b \in 1..MaxCbCommits : on_consumed(b)
    \/ run_task

SpecCb == Init /\ [][NextCb]_vars

\* As SpecCb, with callback resources that go away before their done event.
NextDestroy ==
    \/ /\ commitCount < MaxDestroyCommits
       /\ \E b \in {nullopt} \cup {make_optional(h) : h \in {1, 2}} : attach(b, 0, 0)
    \/ /\ commitCount < MaxDestroyCommits
       /\ nextCb <= MaxDestroyCallbacks
       /\ frame
    \/ /\ commitCount < MaxDestroyCommits
       /\ commit
    \/ \E c \in 1..MaxDestroyCallbacks : destroy_callback(c)
    \/ \E b \in 1..MaxDestroyCommits : on_consumed(b)
    \/ run_task

SpecDestroy == Init /\ [][NextDestroy]_vars

\* The surface being given roles and losing them, between commits.
NextRole ==
    \/ \E r \in Roles : set_role(r)
    \/ clear_role
    \/ /\ commitCount < MaxRoleCommits
       /\ \E b \in {nullopt, make_optional(1)} : attach(b, 0, 0)
    \/ /\ commitCount < MaxRoleCommits
       /\ \E o \in {make_optional(d) : d \in Offsets} : set_pending_offset(o)
    \/ /\ commitCount < MaxRoleCommits
       /\ commit

SpecRole == Init /\ [][NextRole]_vars

\* A surface that is given a deferring role: the client commits offsets, input
\* regions, buffers and frame callbacks, the role applies them when the
\* parent commits.
NextDefer ==
    \/ /\ role = "null_role"
       /\ set_role("subsurface")
    \/ /\ commitCount < MaxDeferCommits
       /\ attach(make_optional(2), 0, 0)
    \/ /\ commitCount < MaxDeferCommits
       /\ \E o \in {make_optional(d) : d \in Offsets} : set_pending_offset(o)
    \/ /\ commitCount < MaxDeferCommits
       /\ set_input_region(make_optional(<<Rect>>))
    \/ /\ commitCount < MaxDeferCommits
       /\ nextCb <= MaxDeferCallbacks
       /\ frame
    \/ /\ commitCount < MaxDeferCommits
       /\ commit
    \/ /\ commitCount < MaxDeferCommits
       /\ applications < MaxApplications
       /\ parent_has_committed

SpecDefer == Init /\ [][NextDefer]_vars

\* The client attaching buffers of two sizes, one of an invalid stride, or
\* none, with and without an input region.
NextInvalidate ==
    \/ /\ commitCount < MaxInvalidateCommits
       /\ \E b \in {nullopt} \cup {make_optional(h) : h \in {1, 2, 3}} : attach(b, 0, 0)
    \/ /\ commitCount < MaxInvalidateCommits
       /\ \E r \in {nullopt, make_optional(<<Rect>>)} : set_input_region(r)
    \/ /\ commitCount < MaxInvalidateCommits
       /\ commit

SpecInvalidate == Init /\ [][NextInvalidate]_vars

\* A new surface and the surfaces that can become its subsurfaces.
InitNotify ==
    /\ SurfInit /\ QInit /\ framedropping = TRUE /\ HistInit /\ RoleInit
    /\ ReqInit /\ LifeInit /\ AllocInit /\ StatInit /\ DeferInit /\ BinderInit
    /\ FoldInit /\ DisplayInit
    /\ tree = [s \in Surfaces |->
                 [offset_ |-> <<0, 0>>, input_shape |-> nullopt,
                  buffer_size_ |-> nullopt, children |-> <<>>]]
    /\ result = [op |-> "none"]

\* Subsurfaces being added to and removed from the surface, which attaches
\* buffers, one of an invalid stride, and commits.
NextNotify ==
    \/ \E c \in Surfaces \ {1} : add_subsurface(1, c)
    \/ \E c \in Surfaces \ {1} : remove_subsurface(1, c)
    \/ /\ commitCount < MaxNotifyCommits
       /\ \E b \in {nullopt, make_optional(1), make_optional(2)} : attach(b, 0, 0)
    \/ /\ commitCount < MaxNotifyCommits
       /\ \E o \in {make_optional(d) : d \in Offsets} : set_pending_offset(o)
    \/ /\ commitCount < MaxNotifyCommits
       /\ commit

SpecNotify == InitNotify /\ [][NextNotify]_vars

(* ------------------------- folding of states -------------------------- *)
\* What commit(state) leaves in a surface: the callbacks appended (line 336),
\* offset, input region and scale taken over where the state has them set
\* (338-345), and the buffer of the state attached or detached where it has
\* one (347-434).
commit_fields(surface, state) ==
    [buffer |-> value_or(state.buffer, surface.buffer),
     scale |-> value_or(state.scale, surface.scale),
     offset_ |-> value_or(state.offset, surface.offset_),
     input_shape |-> value_or(state.input_shape, surface.input_shape),
     frame_callbacks |-> surface.frame_callbacks \o state.frame_callbacks]

\* states a client can commit; their callbacks are named when the sequence is
\* drawn
StateTemplates ==
    { EmptyState,
      [EmptyState EXCEPT !.buffer = make_optional(1), !.frame_callbacks = <<1>>],
      [EmptyState EXCEPT !.buffer = make_optional(nullptr),
                         !.offset = make_optional(<<1, 2>>)],
      [EmptyState EXCEPT !.scale = make_optional(2),
                         !.input_shape = make_optional(make_optional(<<Rect>>)),
                         !.surface_data_invalidated = TRUE],
      [EmptyState EXCEPT !.offset = make_optional(<<0, 0>>),
                         !.input_shape = make_optional(nullopt),
                         !.frame_callbacks = <<1, 2>>],
      [EmptyState EXCEPT !.buffer = make_optional(3), !.scale = make_optional(1),
                         !.surface_data_invalidated = TRUE] }

\* the i-th state of a sequence, with callback resources of its own
with_callbacks(state, i) ==
    [state EXCEPT !.frame_callbacks = [j \in DOMAIN @ |-> <<i, j>>]]

\* a surface some commits have been applied to
UsedSurface ==
    [buffer |-> 1, scale |-> 2, offset_ |-> <<1, 2>>,
     input_shape |-> make_optional(<<Rect>>), frame_callbacks |-> <<<<0, 1>>>>]

\* A surface, new or used, a sequence of states to apply to it, and a
\* default constructed state to fold them into.
InitFold ==
    /\ SurfInit /\ QInit /\ framedropping = TRUE /\ HistInit /\ RoleInit /\ TreeInit
    /\ ReqInit /\ LifeInit /\ AllocInit /\ StatInit /\ DeferInit /\ BinderInit
    /\ DisplayInit
    /\ \E n \in 0..MaxFold : \E ts \in [1..n -> StateTemplates] :
          states = [i \in 1..n |-> with_callbacks(ts[i], i)]
    /\ taken = <<>>
    /\ folded = EmptyState
    /\ prior \in {NewSurface, UsedSurface}
    /\ stepwise = prior

\* The next state is folded into the one held back with update_from, and is
\* committed to the surface that takes the states one by one.
take_state ==
    /\ states # <<>>
    /\ folded' = update_from(folded, Head(states))
    /\ stepwise' = commit_fields(stepwise, Head(states))
    /\ taken' = Append(taken, Head(states))
    /\ states' = Tail(states)
    /\ UNCHANGED <<surfVars, qVars, histVars, roleVars, treeVars, reqVars,
                   lifeVars, allocVars, statVars, deferVars, binderVars, prior,
                   displayVars>>

NextFold == take_state

SpecFold == InitFold /\ [][NextFold]_vars

(* ------------------------------ display -------------------------------- *)
\* A set_size that keeps the mutex while it runs the handlers.
keeps_mutex == "resizer"

\* the mutex when set_size runs the handlers (line 384: lock.unlock())
mutex_for_handlers == "unlocked"

\* Display::register_configuration_change_handler: handler h calls the
\* display operation of its name.
register_configuration_change_handler(h) ==
    /\ mutex = "unlocked"
    /\ config_change_handlers' = Append(config_change_handlers, h)
    /\ UNCHANGED <<surfVars, qVars, histVars, roleVars, treeVars, reqVars,
                   lifeVars, allocVars, statVars, deferVars, binderVars,
                   foldVars, mutex, mode_size, view_area_size, resizing, invoked>>

\* OutputInfo::set_size, line 375: the thread takes the display's mutex.
set_size_lock(size) ==
    /\ resizing.pc = "idle"
    /\ mutex = "unlocked"
    /\ mutex' = "resizer"
    /\ resizing' = [pc |-> "locked", size |-> size, handlers |-> <<>>, next |-> 1]
    /\ invoked' = <<>>
    /\ UNCHANGED <<surfVars, qVars, histVars, roleVars, treeVars, reqVars,
                   lifeVars, allocVars, statVars, deferVars, binderVars,
                   foldVars, mode_size, view_area_size, config_change_handlers>>

\* OutputInfo::set_size, lines 376-384: it returns when the size is the
\* output's, otherwise it stores the size, resizes the view area, copies the
\* handlers and unlocks the mutex.
set_size_update ==
    /\ resizing.pc = "locked"
    /\ IF mode_size = resizing.size
       THEN /\ mutex' = "unlocked"
            /\ resizing' = [resizing EXCEPT !.pc = "idle"]
            /\ UNCHANGED <<mode_size, view_area_size>>
       ELSE /\ mode_size' = resizing.size
            /\ view_area_size' = resizing.size
            /\ mutex' = IF config_change_handlers = <<>> THEN "unlocked"
                        ELSE mutex_for_handlers
            /\ resizing' = [resizing EXCEPT
                               !.pc = IF config_change_handlers = <<>>
                                      THEN "idle" ELSE "handlers",
                               !.handlers = config_change_handlers]
    /\ UNCHANGED <<surfVars, qVars, histVars, roleVars, treeVars, reqVars,
                   lifeVars, allocVars, statVars, deferVars, binderVars,
                   foldVars, config_change_handlers, invoked>>

\* OutputInfo::set_size, lines 385-388: the next handler of the copy runs. It
\* calls configuration, configure or for_each_display_sync_group, each of
\* which locks the display's mutex (lines 255, 264, 275): the call waits
\* while another thread holds it, and never returns when the calling thread
\* holds it itself. After the last handler set_size returns.
run_handler ==
    /\ resizing.pc = "handlers"
    /\ mutex # "compositor"
    /\ IF mutex = "resizer"
       THEN /\ resizing' = [resizing EXCEPT !.pc = "deadlocked"]
            /\ UNCHANGED <<invoked, mutex>>
       ELSE /\ invoked' = Append(invoked, resizing.handlers[resizing.next])
            /\ resizing' = [resizing EXCEPT
                               !.next = @ + 1,
                               !.pc = IF resizing.next = Len(resizing.handlers)
                                      THEN "idle" ELSE "handlers"]
            /\ UNCHANGED mutex
    /\ UNCHANGED <<surfVars, qVars, histVars, roleVars, treeVars, reqVars,
                   lifeVars, allocVars, statVars, deferVars, binderVars,
                   foldVars, mode_size, view_area_size, config_change_handlers>>

\* Display::for_each_display_sync_group called by the compositor: it holds
\* the mutex while it walks the outputs.
for_each_display_sync_group ==
    /\ mutex = "unlocked"
    /\ mutex' = "compositor"
    /\ UNCHANGED <<surfVars, qVars, histVars, roleVars, treeVars, reqVars,
                   lifeVars, allocVars, statVars, deferVars, binderVars,
                   foldVars, mode_size, view_area_size, config_change_handlers,
                   resizing, invoked>>

\* for_each_display_sync_group returns: the lock_guard releases the mutex.
for_each_display_sync_group_returns ==
    /\ mutex = "compositor"
    /\ mutex' = "unlocked"
    /\ UNCHANGED <<surfVars, qVars, histVars, roleVars, treeVars, reqVars,
                   lifeVars, allocVars, statVars, deferVars, binderVars,
                   foldVars, mode_size, view_area_size, config_change_handlers,
                   resizing, invoked>>

\* The X11 window being resized while handlers are registered and the
\* compositor walks the outputs.
NextDisplay ==
    \/ /\ Len(config_change_handlers) < MaxHandlers
       /\ \E h \in DisplayCalls : register_configuration_change_handler(h)
    \/ \E size \in Sizes : set_size_lock(size)
    \/ set_size_update
    \/ run_handler
    \/ for_each_display_sync_group
    \/ for_each_display_sync_group_returns

SpecDisplay == Init /\ [][NextDisplay]_vars

(* --------------------------- texture binder ---------------------------- *)
\* An ensure_egl_image that makes an image at every bind.
always_creates == TRUE

\* ensure_egl_image makes an image (lines 115 and 151)
creates_image == egl_image = EGL_NO_IMAGE_KHR

\* ensure_egl_image of the binder's class: the image and the display it leaves
\* in the binder, the images made so far and what it throws. prime_fails tells
\* whether drmPrimeHandleToFD fails, create_fails whether eglCreateImageKHR
\* returns EGL_NO_IMAGE_KHR.
ensure_egl_image(prime_fails, create_fails) ==
    IF ~creates_image
    THEN [image |-> egl_image, display |-> egl_display,
          created |-> images_created, error |-> "none"]
    ELSE IF binder = "DMABufTextureBinder" /\ prime_fails
    THEN [image |-> egl_image, display |-> "eglGetCurrentDisplay",
          created |-> images_created, error |-> "std::system_error"]
    ELSE IF create_fails
    THEN [image |-> EGL_NO_IMAGE_KHR, display |-> "eglGetCurrentDisplay",
          created |-> images_created, error |-> "mg::egl_error"]
    ELSE [image |-> images_created + 1, display |-> "eglGetCurrentDisplay",
          created |-> images_created + 1, error |-> "none"]

\* EGLImageBufferTextureBinder::gl_bind_to_texture
gl_bind_to_texture(prime_fails, create_fails) ==
    LET ensured == ensure_egl_image(prime_fails, create_fails)
    IN  /\ binder_alive
        /\ egl_image' = ensured.image
        /\ egl_display' = ensured.display
        /\ images_created' = ensured.created
        /\ thrown' = Append(thrown, ensured.error)
        /\ texture' = IF ensured.error = "none"
                      THEN Append(texture, ensured.image) ELSE texture
        /\ UNCHANGED <<surfVars, qVars, histVars, roleVars, treeVars, reqVars,
                       lifeVars, allocVars, statVars, deferVars, binder,
                       binder_alive, images_destroyed, foldVars, displayVars>>

\* EGLImageBufferTextureBinder::~EGLImageBufferTextureBinder
destroy_binder ==
    /\ binder_alive
    /\ binder_alive' = FALSE
    /\ images_destroyed' = IF egl_image # EGL_NO_IMAGE_KHR
                           THEN Append(images_destroyed, egl_image)
                           ELSE images_destroyed
    /\ UNCHANGED <<surfVars, qVars, histVars, roleVars, treeVars, reqVars,
                   lifeVars, allocVars, statVars, deferVars, binder, egl_image,
                   egl_display, images_created, texture, thrown,
                   foldVars, displayVars>>

\* A binder of either class, as constructed.
InitBinder ==
    /\ SurfInit /\ QInit /\ framedropping = TRUE /\ HistInit /\ RoleInit /\ TreeInit
    /\ ReqInit /\ LifeInit /\ AllocInit /\ StatInit /\ DeferInit /\ FoldInit /\ DisplayInit
    /\ binder \in BinderClasses
    /\ BinderConstructed

\* The renderer binding the buffer to a texture, frame after frame, until the
\* binder is destroyed.
NextBinder ==
    \/ /\ Len(thrown) < MaxBinds
       /\ \E prime_fails, create_fails \in BOOLEAN :
             gl_bind_to_texture(prime_fails, create_fails)
    \/ destroy_binder

SpecBinder == InitBinder /\ [][NextBinder]_vars

\* Every request that sets a pending field, the commit, and the renderer and
\* executor completing the buffers.
NextReq ==
    \/ /\ commitCount < MaxReqCommits
       /\ \E b \in {nullopt, make_optional(3)} : attach(b, 0, 0)
    \/ /\ commitCount < MaxReqCommits
       /\ \E o \in {make_optional(<<1, 2>>)} : set_pending_offset(o)
    \/ /\ commitCount < MaxReqCommits
       /\ \E r \in {nullopt, make_optional(<<Rect>>)} : set_input_region(r)
    \/ /\ commitCount < MaxReqCommits
       /\ set_buffer_scale(2)
    \/ /\ commitCount < MaxReqCommits
       /\ nextCb <= MaxReqCallbacks
       /\ frame
    \/ /\ commitCount < MaxReqCommits
       /\ commit
    \/ \E b \in 1..MaxReqCommits : on_consumed(b)
    \/ run_task

SpecReq == Init /\ [][NextReq]_vars

\* The requests the surface accepts and ignores, between requests it applies.
ScreenRects == {<<0, 0, 4, 4>>, <<1, 1, 2, 2>>}
Transforms == {0, 1, 3}
NextIgnored ==
    \/ /\ commitCount < MaxIgnoredCommits
       /\ \E b \in {nullopt, make_optional(1)},
             xy \in {<<0, 0>>, <<1, 0>>, <<0, 3>>} : attach(b, xy[1], xy[2])
    \/ /\ commitCount < MaxIgnoredCommits
       /\ \E o \in {make_optional(<<1, 2>>)} : set_pending_offset(o)
    \/ /\ commitCount < MaxIgnoredCommits
       /\ set_buffer_scale(2)
    \/ \E r \in ScreenRects : damage(r[1], r[2], r[3], r[4])
    \/ \E r \in ScreenRects : damage_buffer(r[1], r[2], r[3], r[4])
    \/ \E r \in {nullopt, make_optional(<<Rect>>)} : set_opaque_region(r)
    \/ \E t \in Transforms : set_buffer_transform(t)
    \/ /\ commitCount < MaxIgnoredCommits
       /\ commit

SpecIgnored == Init /\ [][NextIgnored]_vars

\* The allocator as constructed: nothing bound, no extension.
InitImport ==
    /\ SurfInit /\ QInit /\ framedropping = TRUE /\ HistInit /\ RoleInit /\ TreeInit
    /\ ReqInit /\ LifeInit /\ StatInit /\ DeferInit /\ BinderInit /\ FoldInit /\ DisplayInit
    /\ egl_display_bound = FALSE
    /\ dmabuf_extension = nullptr
    /\ wayland_executor = nullptr

\* the buffers a client can have: shm ones, and one made through the EGL
\* display once that is bound to the Wayland display
client_buffers == {1, 2} \cup (IF egl_display_bound THEN {3} ELSE {})

\* The server binds the display, on a platform with or without the two
\* capabilities, then a client commits buffers until the server crashes.
NextImport ==
    \/ /\ wayland_executor = nullptr
       /\ \E bind_fails, modifiers_missing \in BOOLEAN :
             bind_display(bind_fails, modifiers_missing)
    \/ /\ wayland_executor # nullptr
       /\ lastCommit # "crashed"
       /\ commitCount < MaxImportCommits
       /\ \E b \in {nullopt} \cup {make_optional(h) : h \in client_buffers} : attach(b, 0, 0)
    \/ /\ wayland_executor # nullptr
       /\ lastCommit # "crashed"
       /\ commitCount < MaxImportCommits
       /\ \E n \in Scales : set_buffer_scale(n)
    \/ /\ wayland_executor # nullptr
       /\ lastCommit # "crashed"
       /\ commitCount < MaxImportCommits
       /\ commit

SpecImport == InitImport /\ [][NextImport]_vars

\* A surface with a role whose buffers, shm and native, the renderer consumes
\* and releases, and which is destroyed at some point; the renderer and the
\* executor go on after that.
NextLife ==
    \/ /\ alive
       /\ \E r \in Roles : set_role(r)
    \/ /\ alive
       /\ clear_role
    \/ /\ alive
       /\ commitCount < MaxLifeCommits
       /\ \E b \in {nullopt, make_optional(1), make_optional(3)} : attach(b, 0, 0)
    \/ /\ alive
       /\ commitCount < MaxLifeCommits
       /\ nextCb <= MaxLifeCallbacks
       /\ frame
    \/ /\ alive
       /\ commitCount < MaxLifeCommits
       /\ commit
    \/ \E b \in 1..MaxLifeCommits : on_consumed(b)
    \/ \E b \in 1..MaxLifeCommits : on_release(b)
    \/ \E b \in 1..MaxLifeCommits : destroy_buffer(b)
    \/ run_task
    \/ destroy_surface

SpecLife == Init /\ [][NextLife]_vars

\* The surfaces of a tree, each in a state its commits left it in, without
\* subsurfaces yet.
InitTree ==
    /\ SurfInit /\ QInit /\ framedropping = TRUE /\ HistInit /\ RoleInit
    /\ ReqInit /\ LifeInit /\ AllocInit /\ StatInit /\ DeferInit /\ BinderInit /\ FoldInit /\ DisplayInit
    /\ tree \in [Surfaces -> {[offset_ |-> c.offset_, input_shape |-> c.input_shape,
                               buffer_size_ |-> c.buffer_size_, children |-> <<>>] :
                              c \in SurfaceStates}]
    /\ result = [op |-> "none"]

\* the parents of surface c
parents(c) == {p \in Surfaces : c \in elements(tree[p].children)}

\* Subsurfaces being added to and removed from their parent, and the tree
\* being hit-tested and accumulated. A surface becomes the subsurface of one
\* parent, created before it.
NextTree ==
    \/ /\ result.op = "none"
       /\ \E p, c \in Surfaces :
             /\ p < c
             /\ parents(c) \subseteq {p}
             /\ add_subsurface(p, c)
    \/ /\ result.op = "none"
       /\ \E p, c \in Surfaces : p < c /\ remove_subsurface(p, c)
    \/ /\ result.op = "none"
       /\ \E s \in Surfaces, point \in Points : call_subsurface_at(s, point)
    \/ /\ result.op = "none"
       /\ \E s \in Surfaces, o \in ParentOffsets : call_populate_surface_data(s, o)
    \/ return_result

SpecTree == InitTree /\ [][NextTree]_vars

\* The swap queue with its producers and consumers.
InitQ == SurfInit /\ QInit /\ HistInit /\ RoleInit /\ TreeInit /\ ReqInit /\ LifeInit /\ AllocInit /\ StatInit /\ DeferInit /\ BinderInit /\ FoldInit /\ DisplayInit

NextQ ==
    \/ \E p \in Producers : submit(p)
    \/ \E c \in Consumers : compositor_acquire(c)
    \/ \E c \in Consumers : compositor_release(c)
    \/ teardown

SpecQ == InitQ /\ [][NextQ]_vars

\* The threads are scheduled fairly: a thread that can go on with its call, or
\* make its next one, does so at some point. Nothing obliges anyone to tear
\* the queue down.
FairQ ==
    /\ \A p \in Producers : WF_vars(submit(p))
    /\ \A c \in Consumers : WF_vars(compositor_acquire(c))
    /\ \A c \in Consumers : WF_vars(compositor_release(c))

SpecQFair == InitQ /\ [][NextQ]_vars /\ FairQ

(* ======================================================================= *)
(*                               Claims                                    *)
(* ======================================================================= *)
\* A step of WlSurface::commit()
CommitStep == commitCount' = commitCount + 1
\* pending holds a buffer resource to attach
PendingAttaches == has_value(pending.buffer) /\ value(pending.buffer) # nullptr
\* the callbacks of the done events, in the order sent
DoneCallbacks == [i \in DOMAIN doneLog |-> doneLog[i].cb]
\* the callbacks the done events of a step add
NewDone == SubSeq(DoneCallbacks', Len(doneLog) + 1, Len(doneLog'))
StrictlyIncreasing(q) == \A i, j \in DOMAIN q : i < j => q[i] < q[j]

\* C1: a commit aborted by an invalid stride leaves offset, input region,
\* stream scale, mapped size and the running frame-callback list as they were
\* before that commit.
C1_AbortedCommitChangesNothing ==
    [][(CommitStep /\ lastCommit' = "invalid_stride") =>
          /\ offset_' = offset_
          /\ input_shape' = input_shape
          /\ scale' = scale
          /\ buffer_size_' = buffer_size_
          /\ frame_callbacks' = frame_callbacks]_vars

Queued == {queue[i] : i \in DOMAIN queue}
Acquired == {held[c] : c \in Consumers} \ {0}
\* a step in which some consumer released its buffer
ReleaseStep == \E c \in Consumers : held[c] # 0 /\ held'[c] = 0
Blocked(t) == pc[t] \in {"waiting", "woken"}

\* C6: the queue's buffers are the NumBuffers it was constructed with, every
\* buffer is in exactly one of free, queued and acquired, and at most
\* NumBuffers are queued.
C6_BuffersPartitioned ==
    /\ free \cup Queued \cup Acquired = Buffers
    /\ free \cap Queued = {}
    /\ free \cap Acquired = {}
    /\ Queued \cap Acquired = {}
    /\ Cardinality(Queued) = Len(queue)
    /\ \A c1, c2 \in Consumers : (c1 # c2 /\ held[c1] # 0) => held[c1] # held[c2]
    /\ Cardinality(free) + Len(queue) + Cardinality(Acquired) = NumBuffers
    /\ Len(queue) <= NumBuffers

\* one buffer is free after its release while another one is acquired
C6_Witness ==
    /\ free # {}
    /\ Acquired # {}
    /\ ~torn

C8_AcquireTakesFrontExclusively ==
    /\ [][\A c \in Consumers :
            (held'[c] # held[c] /\ held'[c] # 0) =>
                /\ queue # <<>>
                /\ held'[c] = Head(queue)
                /\ queue' = Tail(queue)]_vars
    /\ [][\A c \in Consumers :
            (pc[c] = "idle" /\ held[c] = 0 /\ queue = <<>> /\ pc'[c] # pc[c] /\ ~torn')
                => pc'[c] = "waiting"]_vars
    /\ [](\A c \in Consumers : held[c] # 0 =>
            /\ held[c] \notin Queued
            /\ \A d \in Consumers \ {c} : held[d] # held[c])

\* two consumers hold a buffer each: consumer 1 acquired second and got
\* buffer 2, the front of the queue once buffer 1 was taken
C8_Witness ==
    /\ \A c \in Consumers : held[c] # 0
    /\ held[<<"consumer", 1>>] = 2
    /\ ~torn

C10_BlockedUntilReleaseOrTeardown ==
    /\ [][\A c \in Consumers :
            (pc[c] = "waiting" /\ pc'[c] # "waiting") => (ReleaseStep \/ torn')]_vars
    /\ [][\A c \in Consumers :
            (Blocked(c) /\ ~Blocked(c)') =>
                \/ torn' /\ pc'[c] = "cancelled"
                \/ queue # <<>> /\ held'[c] = Head(queue)]_vars
    /\ [](torn => \A t \in Threads : ~Blocked(t))

\* a consumer is blocked in compositor_acquire on an empty queue, while a
\* released buffer is free and not yet submitted again
C10_Witness ==
    \E c \in Consumers :
        /\ pc[c] = "waiting"
        /\ queue = <<>>
        /\ free # {}
        /\ ~torn

\* pending attaches a shared-memory buffer resource
PendingShm == PendingAttaches /\ BufferTable[value(pending.buffer)].shm

\* C11: a commit of a shared-memory buffer whose stride is less than its width
\* times the bytes per pixel of its format posts the invalid-stride protocol
\* error and fails, calls no import, submits nothing to the stream and keeps
\* the mapped size; with a stride of at least that product the buffer is
\* imported with buffer_from_shm and submitted.
C11_InvalidStrideRejected ==
    [][(CommitStep /\ PendingShm) =>
          LET b == BufferTable[value(pending.buffer)]
              bpp == IF b.format = "WL_SHM_FORMAT_RGB565" THEN 2 ELSE 4
          IN  IF b.stride < b.width * bpp
              THEN /\ posted_error' = "WL_SHM_ERROR_INVALID_STRIDE"
                   /\ lastCommit' = "invalid_stride"
                   /\ lastImport' = "none"
                   /\ submitted' = submitted
                   /\ buffer_size_' = buffer_size_
              ELSE /\ posted_error' = "none"
                   /\ lastCommit' = "ok"
                   /\ lastImport' = "buffer_from_shm"
                   /\ submitted' = submitted \cup {commitCount'}
                   /\ buffer_size_' = make_optional(<<b.width, b.height>>)]_vars

\* a commit of the stride 8 ARGB8888 buffer was rejected on a surface mapped
\* by the commit before: only the first buffer is in the stream
C11_Witness ==
    /\ lastCommit = "invalid_stride"
    /\ posted_error = "WL_SHM_ERROR_INVALID_STRIDE"
    /\ lastImport = "none"
    /\ buffer_size_ = make_optional(<<8, 8>>)
    /\ submitted = {1}

\* a step of set_role (one that fails again for the same role changes nothing)
SetRoleStep == called' # called /\ called'.request = "set_role"

\* C12: set_role on a surface whose role is not the Null role fails with
\* "Surface already has a role" and leaves the role in place; set_role succeeds
\* exactly when the role is the Null role, which it is exactly initially and
\* after clear_role; the surface has one role at a time.
C12_SetRoleOnlyOnNullRole ==
    /\ [][SetRoleStep =>
            IF role = "null_role"
            THEN role' = called'.role /\ called'.error = "none"
            ELSE role' = role /\ called'.error = "Surface already has a role"]_vars
    /\ [](role \in Roles \cup {"null_role"})
    /\ [](role = "null_role" <=> called.request \in {"none", "clear_role"})

\* set_role(subsurface) failed on a surface that has the toplevel role
C12_Witness ==
    /\ called = [request |-> "set_role", role |-> "subsurface",
                 error |-> "Surface already has a role"]
    /\ role = "toplevel"

\* C13: after clear_role the role is the Null role whatever it was before: a
\* commit that follows applies the pending state to the surface itself and
\* holds nothing back, and a set_role that follows succeeds.
C13_ClearRoleRevertsToNullRole ==
    /\ [](called.request = "clear_role" => role = "null_role")
    /\ [][(CommitStep /\ called.request = "clear_role") =>
            /\ offset_' = IF has_value(pending.offset)
                          THEN value(pending.offset) ELSE offset_
            /\ buffer_size_' =
                  IF ~has_value(pending.buffer) THEN buffer_size_
                  ELSE IF value(pending.buffer) = nullptr THEN nullopt
                  ELSE make_optional(<<BufferTable[value(pending.buffer)].width,
                                       BufferTable[value(pending.buffer)].height>>)
            /\ submitted' = IF PendingAttaches
                            THEN submitted \cup {commitCount'} ELSE submitted
            /\ pending' = EmptyState
            /\ cached' = cached]_vars
    /\ [][(SetRoleStep /\ called.request = "clear_role") =>
            role' = called'.role /\ called'.error = "none"]_vars

\* the subsurface role held back a commit of offset (1,2); after clear_role a
\* commit applied that offset to the surface
C13_Witness ==
    /\ called.request = "clear_role"
    /\ cached.offset = make_optional(<<1, 2>>)
    /\ offset_ = <<1, 2>>

\* C14: a commit of attach(none) clears the mapped size and, inside that
\* commit, sends done to every callback of the running list whose resource
\* still exists, the ones this commit registers included, in list order, and
\* leaves the running list empty.
C14_AttachNoneUnmapsAndSendsAll ==
    [][(CommitStep /\ pending.buffer = make_optional(nullptr)) =>
          /\ buffer_size_' = nullopt
          /\ NewDone = live_callbacks(frame_callbacks \o pending.frame_callbacks)
          /\ \A k \in (Len(doneLog) + 1)..Len(doneLog') :
                doneLog'[k].cause = "commit" /\ doneLog'[k].commit = commitCount'
          /\ frame_callbacks' = <<>>]_vars

\* the second commit attached none to a surface the first one had mapped: the
\* callback waiting since the first commit and the one of the second commit
\* both got done inside the second commit
C14_Witness ==
    /\ commitCount = 2
    /\ lastBufferCommit = "unmapped"
    /\ buffer_size_ = nullopt
    /\ frame_callbacks = <<>>
    /\ Len(doneLog) = 2
    /\ \A k \in DOMAIN doneLog : doneLog[k].cause = "commit" /\ doneLog[k].commit = 2
    /\ registered[1].buffer = 1
    /\ registered[2].commit = 2

\* the surface is mapped
Mapped == buffer_size_ # nullopt

\* C15 as claimed: the surface is mapped exactly if the most recent commit
\* with a buffer field attached a valid buffer that was imported and
\* submitted.
C15_MappedIffLastBufferCommitImported ==
    Mapped <=> lastBufferCommit = "imported"

\* C15 as amended: the surface starts unmapped; it is mapped, with the size of
\* the imported buffer, if the most recent commit with a buffer field imported
\* and submitted a buffer, and unmapped if that commit attached none; a commit
\* without a buffer field, and a commit whose buffer is rejected for its
\* stride, change neither the mapped state nor the mapped size.
C15_MappedByLastAcceptedBufferCommit ==
    /\ [](lastBufferCommit = "imported" => Mapped)
    /\ [](lastBufferCommit \in {"none", "unmapped"} => ~Mapped)
    /\ [][(CommitStep /\ PendingAttaches /\ lastCommit' = "ok") =>
            /\ lastBufferCommit' = "imported"
            /\ submitted' = submitted \cup {commitCount'}
            /\ buffer_size_' =
                  make_optional(<<BufferTable[value(pending.buffer)].width,
                                  BufferTable[value(pending.buffer)].height>>)]_vars
    /\ [][(CommitStep /\ (~has_value(pending.buffer) \/ lastCommit' = "invalid_stride"))
            => buffer_size_' = buffer_size_]_vars

\* the latest commit with a buffer field was rejected for its stride, on a
\* surface the commit before had mapped: it is still mapped
C15_Witness ==
    /\ lastBufferCommit = "rejected"
    /\ lastCommit = "invalid_stride"
    /\ buffer_size_ = make_optional(<<4, 4>>)

\* subsurface_at was called on a mapped surface / an unmapped one
HitMapped ==
    result.op = "subsurface_at" /\ tree[result.surface].buffer_size_ # nullopt
HitUnmapped ==
    result.op = "subsurface_at" /\ tree[result.surface].buffer_size_ = nullopt
\* the point of the call in the surface's local coordinates
HitPoint == minus(result.point, tree[result.surface].offset_)
\* the children of the surface, and the positions of those that accept the
\* point
HitChildren == tree[result.surface].children
Accepting ==
    {i \in DOMAIN HitChildren : has_value(subsurface_at(HitChildren[i], HitPoint))}
\* the point lies in the rectangle, edges at the right and bottom excluded
Inside(rect, point) ==
    /\ rect.x <= point[1] /\ point[1] < rect.x + rect.w
    /\ rect.y <= point[2] /\ point[2] < rect.y + rect.h
\* the mapped rectangle of the surface, in local coordinates
MappedRect ==
    [x |-> 0, y |-> 0, w |-> value(tree[result.surface].buffer_size_)[1],
     h |-> value(tree[result.surface].buffer_size_)[2]]
\* the input-region rectangles: those set, or the whole mapped rectangle
InputRects ==
    IF has_value(tree[result.surface].input_shape)
    THEN elements(value(tree[result.surface].input_shape))
    ELSE {MappedRect}

\* C16: subsurface_at on an unmapped surface returns nothing for every point,
\* whatever its input region and its children.
C16_UnmappedHitsNothing == HitUnmapped => result.value = nullopt

\* subsurface_at returned nothing on an unmapped surface that has an input
\* region set and a mapped child accepting the point
C16_Witness ==
    /\ HitUnmapped
    /\ has_value(tree[result.surface].input_shape)
    /\ Accepting # {}
    /\ result.value = nullopt

\* C17: on a mapped surface, when some child accepts the point the result is
\* the hit of the accepting child added last, whether or not the surface's own
\* input region contains the point.
C17_LatestAddedChildWins ==
    (HitMapped /\ Accepting # {}) =>
        result.value =
            subsurface_at(HitChildren[CHOOSE i \in Accepting :
                                         \A j \in Accepting : j <= i],
                          HitPoint)

\* two children and the surface's own input region all accept the point: the
\* result is the child added second
C17_Witness ==
    /\ HitMapped
    /\ Len(HitChildren) = 2
    /\ Accepting = {1, 2}
    /\ \E rect \in InputRects : Inside(rect, HitPoint) /\ Inside(MappedRect, HitPoint)
    /\ result.value = make_optional(HitChildren[2])

\* C18 as claimed: when no child accepts the point, the result is the surface
\* itself exactly if the local point lies in one of its input-region
\* rectangles, and nothing otherwise.
C18_OwnRegionUnclipped ==
    (HitMapped /\ Accepting = {}) =>
        result.value = IF \E rect \in InputRects : Inside(rect, HitPoint)
                       THEN make_optional(result.surface) ELSE nullopt

\* C18 as amended: when no child accepts the point, the result is the surface
\* itself exactly if the local point (the point minus the surface's offset)
\* lies in one of its input-region rectangles and in the mapped rectangle,
\* that is in a set rectangle clipped to the mapped rectangle or, with no
\* region set, in the mapped rectangle; nothing otherwise.
C18_OwnRegionClippedToMappedRect ==
    (HitMapped /\ Accepting = {}) =>
        result.value = IF \E rect \in InputRects :
                              Inside(rect, HitPoint) /\ Inside(MappedRect, HitPoint)
                       THEN make_optional(result.surface) ELSE nullopt

\* the local point lies in a set input rectangle but beyond the mapped
\* rectangle: nothing is returned
C18_Witness ==
    /\ HitMapped
    /\ Accepting = {}
    /\ \E rect \in InputRects : Inside(rect, HitPoint)
    /\ ~Inside(MappedRect, HitPoint)
    /\ result.value = nullopt

\* populate_surface_data was called; on a surface without children
PopCall == result.op = "populate_surface_data"
PopLeaf == PopCall /\ tree[result.surface].children = <<>>
\* the offset of the called surface itself
PopOffset == plus(result.parent_offset, tree[result.surface].offset_)
\* the accumulated input shape
PopShape == result.value.input_shape_accumulator
ZeroRect == [x |-> 0, y |-> 0, w |-> 0, h |-> 0]
\* the rectangle of surface s at offset: zero size when s is unmapped
SurfaceRect(s, offset) ==
    [x |-> offset[1], y |-> offset[2],
     w |-> IF has_value(tree[s].buffer_size_) THEN value(tree[s].buffer_size_)[1] ELSE 0,
     h |-> IF has_value(tree[s].buffer_size_) THEN value(tree[s].buffer_size_)[2] ELSE 0]

\* C19 as claimed: for a surface without children the accumulated shape is one
\* zero-size rectangle after an explicitly empty input region, one rectangle
\* equal to the whole surface rectangle when no region is set, and the shape
\* for no region set is never the one an explicitly empty region gives.
C19_EmptyAndUnsetAlwaysDistinct ==
    PopLeaf =>
        /\ tree[result.surface].input_shape = make_optional(<<>>) =>
                PopShape = <<ZeroRect>>
        /\ tree[result.surface].input_shape = nullopt =>
                /\ PopShape = <<SurfaceRect(result.surface, PopOffset)>>
                /\ PopShape # <<ZeroRect>>

\* C19 as amended: for a surface without children the accumulated shape is one
\* zero-size rectangle at the origin after an explicitly empty input region,
\* and one rectangle equal to the whole surface rectangle when no region is
\* set; the two differ whenever the surface is mapped, the surface rectangle
\* then having a size; on an unmapped surface the surface rectangle is itself
\* of zero size.
C19_EmptyAndUnsetDistinctWhenMapped ==
    PopLeaf =>
        /\ tree[result.surface].input_shape = make_optional(<<>>) =>
                PopShape = <<ZeroRect>>
        /\ tree[result.surface].input_shape = nullopt =>
                /\ PopShape = <<SurfaceRect(result.surface, PopOffset)>>
                /\ IF has_value(tree[result.surface].buffer_size_)
                   THEN PopShape[1].w > 0 /\ PopShape[1].h > 0
                   ELSE PopShape[1].w = 0 /\ PopShape[1].h = 0

\* an 8x8 surface with an explicitly empty input region, populated at a
\* parent offset: its shape is the one zero-size rectangle
C19_Witness ==
    /\ PopLeaf
    /\ tree[result.surface].input_shape = make_optional(<<>>)
    /\ tree[result.surface].buffer_size_ = make_optional(<<8, 8>>)
    /\ result.parent_offset = <<3, 1>>
    /\ PopShape = <<ZeroRect>>

\* the stream entries of the call, and the surface the call was made on
Streams == result.value.buffer_streams
PopRoot == result.surface
\* the parent of a subsurface
ParentOf(c) == CHOOSE p \in Surfaces : c \in elements(tree[p].children)
\* s is in the tree below root (root included)
RECURSIVE InTree(_, _)
InTree(s, root) ==
    \/ s = root
    \/ parents(s) # {} /\ InTree(ParentOf(s), root)
\* the sum of the offsets on the path from root down to s
RECURSIVE PathOffset(_, _)
PathOffset(s, root) ==
    IF s = root THEN tree[s].offset_
    ELSE plus(PathOffset(ParentOf(s), root), tree[s].offset_)
\* where the entry of surface s is
Position(s) == CHOOSE i \in DOMAIN Streams : Streams[i].stream = s
\* the input rectangles surface s is to give at offset
ExpectedRects(s, offset) ==
    IF tree[s].input_shape = nullopt THEN <<SurfaceRect(s, offset)>>
    ELSE IF value(tree[s].input_shape) = <<>> THEN <<ZeroRect>>
    ELSE [i \in DOMAIN value(tree[s].input_shape) |->
             intersection_with(
                 [x |-> value(tree[s].input_shape)[i].x + offset[1],
                  y |-> value(tree[s].input_shape)[i].y + offset[2],
                  w |-> value(tree[s].input_shape)[i].w,
                  h |-> value(tree[s].input_shape)[i].h],
                 SurfaceRect(s, offset))]
\* the rectangles of the entries from position i on
RECURSIVE RectsFrom(_)
RectsFrom(i) ==
    IF i > Len(Streams) THEN <<>>
    ELSE ExpectedRects(Streams[i].stream, Streams[i].offset) \o RectsFrom(i + 1)

\* C20: populate_surface_data gives one stream entry for every surface of the
\* tree and no other, a parent before its children and the children, each
\* with all below it, in the order they were added; every entry has the
\* offset parent_offset plus the offsets on the path from the root to its
\* surface; the input rectangles are, entry by entry, the surface's set
\* rectangles moved by that offset and clipped to the surface's rectangle at
\* that offset.
C20_OneEntryPerSurfaceInTreeOrder ==
    PopCall =>
        /\ {Streams[i].stream : i \in DOMAIN Streams} =
              {s \in Surfaces : InTree(s, PopRoot)}
        /\ Len(Streams) = Cardinality({s \in Surfaces : InTree(s, PopRoot)})
        /\ \A i \in DOMAIN Streams :
              Streams[i].offset =
                  plus(result.parent_offset, PathOffset(Streams[i].stream, PopRoot))
        /\ \A s \in Surfaces :
              (InTree(s, PopRoot) /\ s # PopRoot) => Position(ParentOf(s)) < Position(s)
        /\ \A p \in Surfaces : \A i, j \in DOMAIN tree[p].children :
              (InTree(p, PopRoot) /\ i < j) =>
                  \A d \in Surfaces :
                      InTree(d, tree[p].children[i]) =>
                          Position(d) < Position(tree[p].children[j])
        /\ PopShape = RectsFrom(1)

\* a chain of three surfaces populated at a parent offset: the entry of the
\* innermost one has the offsets of all three added to it
C20_Witness ==
    /\ PopCall
    /\ PopRoot = 1
    /\ tree[1].children = <<2>>
    /\ tree[2].children = <<3>>
    /\ result.parent_offset = <<3, 1>>
    /\ tree[1].offset_ = <<1, 2>>
    /\ tree[2].offset_ = <<1, 2>>
    /\ tree[3].offset_ = <<1, 2>>
    /\ Len(Streams) = 3
    /\ Streams[3] = [stream |-> 3, offset |-> <<6, 7>>]

(* ------------------------------- C21 ----------------------------------- *)
\* the pending fields among offset, input region and scale that are set
PendingSet == {f \in {"offset", "input_shape", "scale"} : has_value(pending[f])}
\* the current value of a committable field
Current(f) ==
    CASE f = "offset" -> offset_
      [] f = "input_shape" -> input_shape
      [] f = "scale" -> scale
\* the pending field f is set to the value the surface has
Redundant(f) == has_value(pending[f]) /\ value(pending[f]) = Current(f)

\* C21: a commit of a pending offset, input region or scale equal to the
\* current one leaves that field as it was, and a commit whose pending fields
\* are all of this kind, without a pending buffer, leaves offset, input
\* region, scale and mapped size as they were.
C21_CommitOfCurrentValueChangesNothing ==
    [][CommitStep =>
          /\ Redundant("offset") => offset_' = offset_
          /\ Redundant("input_shape") => input_shape' = input_shape
          /\ Redundant("scale") => scale' = scale
          /\ (/\ PendingSet # {}
              /\ \A f \in PendingSet : Redundant(f)
              /\ ~has_value(pending.buffer))
             => UNCHANGED <<offset_, input_shape, scale, buffer_size_>>]_vars

\* the first commit carried a scale, and the scale is the initial one: the
\* commit set the scale the stream already had, and nothing changed
C21_Witness ==
    /\ commitCount = 1
    /\ lastSet = {"scale"}
    /\ scale = 1
    /\ offset_ = <<0, 0>>
    /\ input_shape = nullopt
    /\ buffer_size_ = nullopt

(* ------------------------------- C22 ----------------------------------- *)
\* A step of the executor running a task
TaskStep == executor # <<>> /\ executor' = Tail(executor)
\* A step of attach, set_pending_offset, set_input_region, set_buffer_scale
\* or frame that changes pending
SetterStep == pending' # pending /\ ~CommitStep

\* C22 as stated: offset, input region, mapped size, scale and the running
\* frame-callback list change only inside commit().
C22_CurrentChangesOnlyInCommit ==
    [][~CommitStep =>
          UNCHANGED <<offset_, input_shape, buffer_size_, scale, frame_callbacks>>]_vars

\* C22: attach, set_pending_offset, set_input_region, set_buffer_scale and
\* frame leave offset, input region, mapped size, scale and the running
\* frame-callback list as they were; offset, input region, mapped size and
\* scale change only inside commit(), and the running list changes only
\* inside commit() or when an executor task runs send_frame_callbacks.
C22_SettersChangeOnlyPending ==
    [][/\ SetterStep =>
             UNCHANGED <<offset_, input_shape, buffer_size_, scale, frame_callbacks>>
       /\ ~CommitStep => UNCHANGED <<offset_, input_shape, buffer_size_, scale>>
       /\ (~CommitStep /\ ~TaskStep) => UNCHANGED frame_callbacks]_vars

\* after a commit that mapped the surface, every setter has been called with
\* a value other than the current one, and the surface is as the commit left it
C22_Witness ==
    /\ commitCount = 1
    /\ pending.buffer = make_optional(nullptr)
    /\ pending.offset = make_optional(<<1, 2>>)
    /\ pending.input_shape = make_optional(make_optional(<<Rect>>))
    /\ pending.scale = make_optional(2)
    /\ pending.frame_callbacks = <<1>>
    /\ buffer_size_ = make_optional(<<8, 8>>)
    /\ offset_ = <<0, 0>>
    /\ input_shape = nullopt
    /\ scale = 1
    /\ frame_callbacks = <<>>

(* ------------------------------- C23 ----------------------------------- *)
\* a pending field that has been cleared explicitly: attach(none) leaves a
\* null buffer, set_input_region(none) a set outer optional without a region
Cleared(f) ==
    CASE f = "buffer" -> pending.buffer = make_optional(nullptr)
      [] f = "input_shape" -> pending.input_shape = make_optional(nullopt)
      [] OTHER -> FALSE

SendStep ==
    \/ CommitStep /\ ~PendingAttaches
    \/ TaskStep /\ Head(executor).run = "send_frame_callbacks" /\ alive
\* the running list send_frame_callbacks finds
ListAtSend ==
    IF CommitStep THEN frame_callbacks \o pending.frame_callbacks ELSE frame_callbacks

\* C24: send_frame_callbacks sends done to the callbacks of the running list
\* whose resource has not been destroyed, in list order, to no destroyed one,
\* and leaves the list empty; no callback ever gets done twice.
C24_DoneToLiveCallbacksOnce ==
    /\ [][SendStep =>
             /\ NewDone = SelectSeq(ListAtSend, LAMBDA c : c \notin destroyed)
             /\ frame_callbacks' = <<>>]_vars
    /\ [](\A i, j \in DOMAIN doneLog : i # j => doneLog[i].cb # doneLog[j].cb)

\* two callbacks were registered and the running list has been sent: the
\* first one, destroyed by then, got nothing, the second one got done
C24_Witness ==
    /\ Len(registered) = 2
    /\ DoneCallbacks = <<2>>
    /\ frame_callbacks = <<>>
    /\ pending.frame_callbacks = <<>>

(* ------------------------------- C25 ----------------------------------- *)
\* A step of damage, damage_buffer, set_opaque_region or set_buffer_transform
IgnoredStep == ignored' # ignored
\* the state of the surface that commits and queries see
PendingAndCurrent ==
    <<pending, offset_, input_shape, scale, buffer_size_, frame_callbacks>>

\* C25: attach with a non-zero (x, y) leaves what attach of the same buffer
\* with (0, 0) leaves, the pending offset and the current state untouched,
\* and damage, damage_buffer, set_opaque_region and set_buffer_transform
\* leave pending and current state as they were.
C25_IgnoredRequestsChangeNothing ==
    [][/\ \A b \in {nullopt, make_optional(1)}, xy \in {<<1, 0>>, <<0, 3>>} :
             attach(b, xy[1], xy[2]) =>
                /\ pending' = [pending EXCEPT
                                  !.buffer = make_optional(value_or(b, nullptr))]
                /\ UNCHANGED <<offset_, input_shape, scale, buffer_size_,
                               frame_callbacks>>
       /\ IgnoredStep => UNCHANGED PendingAndCurrent]_vars

\* a buffer was attached at a non-zero (x, y), which logged the warning, then
\* the transform was set, then all was committed: the offset is the one set
\* with set_pending_offset, the scale the one set with set_buffer_scale
C25_Witness ==
    /\ warned
    /\ ignored = "set_buffer_transform"
    /\ commitCount = 1
    /\ lastSet = {"buffer", "offset", "scale"}
    /\ offset_ = <<1, 2>>
    /\ scale = 2
    /\ buffer_size_ = make_optional(<<4, 4>>)

(* ------------------------------- C26 ----------------------------------- *)
\* pending holds a buffer that is not a shm one
PendingNative == PendingAttaches /\ ~BufferTable[value(pending.buffer)].shm
\* the allocator lacks a capability of the hardware path
LacksCapability == ~egl_display_bound \/ dmabuf_extension = nullptr

\* C26 as stated: the commit of a native buffer to an allocator that lacks the
\* EGL binding or the dmabuf extension succeeds, with a Buffer imported through
\* the software path and submitted to the stream.
C26_MissingCapabilityFallsBackToSoftware ==
    [][(CommitStep /\ PendingNative /\ LacksCapability) =>
          /\ lastCommit' = "ok"
          /\ lastImport' = "buffer_from_shm"
          /\ commitCount' \in submitted']_vars

(* ------------------------------- C27 ----------------------------------- *)
\* A step of ~WlSurface
DestroyStep == alive /\ ~alive'

\* C27: the destruction of a surface, mapped or not and whatever its role,
\* calls destroy on the role the surface has and then destroys its buffer
\* stream; both calls are made once, and none before the destruction.
C27_DestructorTellsRoleThenDestroysStream ==
    /\ [][DestroyStep =>
             destroy_calls' = <<[call |-> "role->destroy", role |-> role],
                                [call |-> "session->destroy_buffer_stream"]>>]_vars
    /\ [][~DestroyStep => destroy_calls' = destroy_calls]_vars
    /\ [](alive => destroy_calls = <<>>)

\* a mapped toplevel surface was destroyed: its role got destroy, then the
\* stream was destroyed
C27_Witness ==
    /\ ~alive
    /\ buffer_size_ # nullopt
    /\ role = "toplevel"
    /\ Len(destroy_calls) = 2
    /\ destroy_calls[1] = [call |-> "role->destroy", role |-> "toplevel"]
    /\ destroy_calls[2].call = "session->destroy_buffer_stream"

(* ------------------------------- C28 ----------------------------------- *)
\* C28: whatever the number of submissions, the latency the test notes for a
\* submission, the posts between the submission of a buffer and the post
\* that shows it, is at most the number of client buffers, and so is the
\* number of posts every submission not yet shown has been waiting for.
C28_LatencyBoundedByClientBuffers ==
    /\ \A i \in DOMAIN latency_list : latency_list[i] <= expected_client_buffers
    /\ \A i \in DOMAIN submissions :
          post_count - submissions[i].time <= expected_client_buffers

\* the client has filled the stream again and again: six submissions were
\* shown, the third after the two queued before it, the sixth after the one
\* queued before it
C28_Witness ==
    /\ submission_count = 6
    /\ Len(latency_list) = 6
    /\ latency_list[1] = 0
    /\ latency_list[3] = 2
    /\ latency_list[6] = 1

(* ------------------------------- C29 ----------------------------------- *)
\* A step of the renderer firing on-consumed or on-release
CompletionStep == consumed' # consumed \/ (native' # native /\ ~CommitStep)

\* C29: a step in which the renderer fires on-consumed or on-release adds
\* one task behind the executor's tasks and sends nothing; a done event is
\* sent inside a commit or by a task the executor runs, a release event only
\* by a task the executor runs.
C29_CompletionsOnlySpawnTasks ==
    /\ [][CompletionStep =>
             /\ Len(executor') = Len(executor) + 1
             /\ SubSeq(executor', 1, Len(executor)) = executor
             /\ UNCHANGED <<doneLog, release_events, frame_callbacks, destroyed,
                            pending, offset_, input_shape, scale, buffer_size_>>]_vars
    /\ [][doneLog' # doneLog => (CommitStep \/ TaskStep)]_vars
    /\ [][release_events' # release_events =>
             (TaskStep /\ Head(executor).run = "release")]_vars

\* the renderer has consumed and released the native buffer of the first
\* commit: two tasks wait on the executor, the callback of that commit has
\* no done yet and the buffer no release
C29_Witness ==
    /\ commitCount = 1
    /\ lastImport = "buffer_from_resource"
    /\ consumed = {1}
    /\ native = {}
    /\ executor = <<[run |-> "send_frame_callbacks"], [run |-> "release", buffer |-> 1]>>
    /\ frame_callbacks = <<1>>
    /\ doneLog = <<>>
    /\ release_events = <<>>

(* ------------------------------- C30 ----------------------------------- *)
\* C30: a task that on-consumed spawned and that runs once the surface is
\* destroyed sends no done event and leaves the state of the surface as it
\* is, whether on-consumed fired before the destruction or after it; no
\* done event is sent once the surface is destroyed.
C30_TaskAfterDestructionDoesNothing ==
    /\ [][(TaskStep /\ ~alive /\ Head(executor).run = "send_frame_callbacks") =>
             UNCHANGED <<doneLog, frame_callbacks, destroyed, pending, offset_,
                         input_shape, scale, buffer_size_>>]_vars
    /\ [][doneLog' # doneLog => alive]_vars

\* a buffer was committed with a frame callback and consumed, and the task
\* has run: the callback is still in the running list without a done event,
\* so the task ran after the surface was destroyed
C30_Witness ==
    /\ ~alive
    /\ commitCount = 1
    /\ consumed = {1}
    /\ executor = <<>>
    /\ frame_callbacks = <<1>>
    /\ doneLog = <<>>

(* ------------------------------- C31 ----------------------------------- *)
\* A step of the executor running a task that on-release spawned
ReleaseTaskStep == TaskStep /\ Head(executor).run = "release"

\* C31: the task on-release spawned posts the release event to the buffer
\* exactly if the buffer resource has not been destroyed when the task runs;
\* no release event is posted to a destroyed buffer resource, and none
\* outside such a task.
C31_ReleaseUnlessBufferDestroyed ==
    /\ [][ReleaseTaskStep =>
             release_events' =
                IF Head(executor).buffer \in dead_buffers THEN release_events
                ELSE Append(release_events, Head(executor).buffer)]_vars
    /\ [][release_events' # release_events =>
             /\ ReleaseTaskStep
             /\ release_events'[Len(release_events')] \notin dead_buffers]_vars

\* the native buffer of the first commit was released by the renderer and
\* destroyed by the client before the task ran: no release event was posted
C31_Witness ==
    /\ commitCount = 1
    /\ lastImport = "buffer_from_resource"
    /\ lastCommit = "ok"
    /\ native = {}
    /\ dead_buffers = {1}
    /\ executor = <<>>
    /\ release_events = <<>>

(* ------------------------------- C32 ----------------------------------- *)
\* A step of WlSurface::commit(), as opposed to the role applying later what
\* it held back
ClientCommitStep == CommitStep /\ applications' = applications
\* pending without the offset and the input region that equal the current ones
WithoutRedundant ==
    [pending EXCEPT !.offset = IF Redundant("offset") THEN nullopt ELSE @,
                    !.input_shape = IF Redundant("input_shape") THEN nullopt ELSE @]
\* the fields of a state that are set
FieldsSet(state) ==
    {f \in {"buffer", "scale", "offset", "input_shape"} : has_value(state[f])}
\* the role received state in this step: a deferring role has folded it into
\* what it holds back, another one has committed it to the surface
RoleReceived(state) ==
    IF role = "subsurface"
    THEN cached' = update_from(cached, state)
    ELSE /\ lastSet' = FieldsSet(state)
         /\ Len(registered') = Len(registered) + Len(state.frame_callbacks)
         /\ cached' = cached

\* C32 as stated: commit() hands the role exactly the state accumulated since
\* the previous commit and leaves pending empty.
C32_HandsExactlyPending ==
    [][ClientCommitStep =>
          /\ pending' = EmptyState
          /\ handed' = pending
          /\ RoleReceived(pending)]_vars

\* C32: commit() hands the current role, once, the state accumulated since
\* the previous commit less a pending offset and a pending input region that
\* equal the current ones, which it hands as not set; it leaves pending empty
\* whether the role's commit completes or is aborted, and no frame callback
\* is handed to the role by two commits.
C32_HandsPendingOnceAndResets ==
    /\ [][ClientCommitStep =>
             /\ pending' = EmptyState
             /\ handed' = WithoutRedundant
             /\ handed_callbacks' = handed_callbacks \o pending.frame_callbacks
             /\ RoleReceived(WithoutRedundant)]_vars
    /\ [][~ClientCommitStep => UNCHANGED <<handed, handed_callbacks>>]_vars
    /\ [](\A i, j \in DOMAIN handed_callbacks :
              handed_callbacks[i] = handed_callbacks[j] => i = j)

\* two commits have handed a callback each to the deferring role, the second
\* with an offset equal to the current one and a buffer of invalid stride
C32_Witness ==
    /\ role = "subsurface"
    /\ commitCount = 2
    /\ applications = 0
    /\ pending = EmptyState
    /\ Len(handed_callbacks) = 1
    /\ requested.offset = make_optional(offset_)
    /\ handed.offset = nullopt
    /\ handed.buffer = make_optional(2)
    /\ cached.frame_callbacks = handed_callbacks

(* ------------------------------- C33 ----------------------------------- *)
\* C33: a commit that attaches a valid buffer marks the surface data as
\* invalidated exactly if the surface has no explicit input region after the
\* commit and the size of the new buffer differs from the size the surface
\* was mapped with before, an unmapped surface having none; every other
\* commit marks nothing.
C33_InvalidatedIffSizeChangesWithoutInputRegion ==
    [][CommitStep =>
          invalidated' =
             (/\ PendingAttaches
              /\ ~invalid_stride(value(pending.buffer))
              /\ input_shape' = nullopt
              /\ buffer_size_ # make_optional(stream_size(value(pending.buffer))))]_vars

\* the second commit replaced a 4x4 buffer by an 8x8 one on a surface without
\* an input region: the surface data was invalidated
C33_Witness ==
    /\ commitCount = 2
    /\ submitted = {1, 2}
    /\ buffer_size_ = make_optional(<<8, 8>>)
    /\ input_shape = nullopt
    /\ invalidated

(* ------------------------------- C34 ----------------------------------- *)
\* A step of gl_bind_to_texture
BindStep == Len(thrown') = Len(thrown) + 1
\* the error the bind of this step threw
BindError == thrown'[Len(thrown')]

\* C34: a binder makes its EGL image on the first gl_bind_to_texture that
\* succeeds and binds that same image at every later call, so it makes at
\* most one image; a bind whose image creation fails throws, caches no image
\* and binds nothing, and the next bind tries again; the destroyed binder
\* has destroyed its image exactly if it had made one.
C34_ImageCreatedOnceAndReused ==
    /\ [](images_created <= 1)
    /\ [](\A i \in DOMAIN texture : texture[i] = 1)
    /\ [](egl_image = images_created)
    /\ [][BindStep /\ egl_image # EGL_NO_IMAGE_KHR =>
             /\ BindError = "none"
             /\ texture' = Append(texture, egl_image)
             /\ UNCHANGED <<egl_image, images_created>>]_vars
    /\ [][BindStep /\ egl_image = EGL_NO_IMAGE_KHR =>
             IF BindError = "none"
             THEN /\ images_created' = 1
                  /\ egl_image' = 1
                  /\ texture' = Append(texture, 1)
             ELSE UNCHANGED <<egl_image, images_created, texture>>]_vars
    /\ [](~binder_alive =>
             images_destroyed = IF images_created = 1 THEN <<1>> ELSE <<>>)
    /\ [](binder_alive => images_destroyed = <<>>)

\* a DMA-buf binder failed twice, then made its image, bound it twice and
\* was destroyed with it
C34_Witness ==
    /\ binder = "DMABufTextureBinder"
    /\ thrown = <<"std::system_error", "mg::egl_error", "none", "none">>
    /\ texture = <<1, 1>>
    /\ images_created = 1
    /\ ~binder_alive
    /\ images_destroyed = <<1>>

(* ------------------------------- C35 ----------------------------------- *)
\* the child list of surface p
ChildList(p) == tree[p].children

\* C35: no child list holds a child twice, and a child list changes only by
\* one child that was not in it being appended behind the others, or by one
\* child that was in it being taken out with the others left in their order;
\* so adding a child that is listed and removing one that is not change
\* nothing.
C35_ChildListHasNoDuplicates ==
    /\ [](\A p \in Surfaces : \A i, j \in DOMAIN ChildList(p) :
              ChildList(p)[i] = ChildList(p)[j] => i = j)
    /\ [][\A p \in Surfaces :
             ChildList(p)' # ChildList(p) =>
                \E c \in Surfaces :
                   \/ /\ c \notin elements(ChildList(p))
                      /\ ChildList(p)' = Append(ChildList(p), c)
                   \/ /\ c \in elements(ChildList(p))
                      /\ c \notin elements(ChildList(p)')
                      /\ ChildList(p)' = SelectSeq(ChildList(p), LAMBDA d : d # c)]_vars

\* surface 1 has both other surfaces as children, the one added later last
C35_Witness ==
    /\ ChildList(1) = <<3, 2>>
    /\ ChildList(2) = <<>>
    /\ result.op = "none"

(* ------------------------------- C36 ----------------------------------- *)
\* A step of the deferring role applying the state it held back
ApplyStep == applications' = applications + 1

\* C36 as stated: when a deferring role applies the state it accumulated, the
\* offset and the input region that become current are those of the most
\* recent commit() that set them while the role deferred.
C36_AppliedOffsetIsLatestCommitted ==
    [][ApplyStep =>
          /\ has_value(requested.offset) => offset_' = value(requested.offset)
          /\ has_value(requested.input_shape) =>
                input_shape' = value(requested.input_shape)]_vars

(* ------------------------------- C37 ----------------------------------- *)
\* the value field f has in the last of the taken states that set it
LastValue(f) ==
    LET setters == {i \in DOMAIN taken : has_value(taken[i][f])}
    IN  IF setters = {} THEN nullopt
        ELSE taken[CHOOSE i \in setters : \A k \in setters : k <= i][f]
\* the frame callbacks of a sequence of states, in order
RECURSIVE AllFrameCallbacks(_)
AllFrameCallbacks(ss) ==
    IF ss = <<>> THEN <<>>
    ELSE Head(ss).frame_callbacks \o AllFrameCallbacks(Tail(ss))

C38_CommitNotifiesChildrenInOrder ==
    /\ [][CommitStep =>
             /\ notified' = IF PendingAttaches /\ invalid_stride(value(pending.buffer))
                            THEN <<>> ELSE ChildList(1)
             /\ \A i, j \in DOMAIN notified' : notified'[i] = notified'[j] => i = j
             /\ offset_' = value_or(pending.offset, offset_)
             /\ (lastCommit' = "ok" /\ PendingAttaches) =>
                   buffer_size_' = make_optional(stream_size(value(pending.buffer)))]_vars
    /\ [][~CommitStep => notified' = notified]_vars

\* the second commit mapped the surface and notified both children, the
\* later added one last
C38_Witness ==
    /\ commitCount = 2
    /\ lastCommit = "ok"
    /\ has_value(buffer_size_)
    /\ ChildList(1) = <<3, 2>>
    /\ notified = <<3, 2>>

(* ------------------------------- C39 ----------------------------------- *)
\* a thread can go on: one of the calls of a producer or a consumer can take
\* a step
CanProgress ==
    \/ \E p \in Producers : ENABLED submit(p)
    \/ \E c \in Consumers : ENABLED compositor_acquire(c)
    \/ \E c \in Consumers : ENABLED compositor_release(c)
\* consumer c waits in compositor_acquire while a buffer is queued
WaitsWithBufferQueued(c) == ~torn /\ pc[c] = "waiting" /\ queue # <<>>

UpdateStep == resizing.pc = "locked" /\ resizing'.pc # "locked"

\* C40: set_size with the size the output has changes nothing and runs no
\* handler; with another size it stores the size and resizes the view area
\* while it holds the display's mutex, releases the mutex and then runs every
\* handler that was registered, once each and in order; a handler that calls
\* configuration, configure or for_each_display_sync_group never finds the
\* mutex held by the thread it runs on.
C40_HandlersRunOnceWithoutMutex ==
    /\ [][UpdateStep /\ resizing.size = mode_size =>
             /\ UNCHANGED <<mode_size, view_area_size, invoked>>
             /\ invoked = <<>>
             /\ resizing'.pc = "idle"
             /\ mutex' = "unlocked"]_vars
    /\ [][UpdateStep /\ resizing.size # mode_size =>
             /\ mutex = "resizer"
             /\ mode_size' = resizing.size
             /\ view_area_size' = resizing.size
             /\ resizing'.handlers = config_change_handlers
             /\ mutex' = "unlocked"]_vars
    /\ [][~UpdateStep => UNCHANGED <<mode_size, view_area_size>>]_vars
    /\ [][invoked' # invoked /\ invoked' # <<>> =>
             /\ resizing.pc = "handlers"
             /\ mutex = "unlocked"
             /\ invoked' = Append(invoked, resizing.handlers[Len(invoked) + 1])]_vars
    /\ [](resizing.pc = "handlers" => mutex # "resizer")
    /\ [](resizing.pc # "deadlocked")
    /\ [](resizing.pc = "idle" /\ resizing # NoResize /\ mode_size = resizing.size
            => invoked = resizing.handlers)

\* the output was resized and both registered handlers have run, one calling
\* configure and one for_each_display_sync_group, while the compositor holds
\* the mutex again
C40_Witness ==
    /\ resizing.pc = "idle"
    /\ mode_size = <<800, 600>>
    /\ view_area_size = <<800, 600>>
    /\ config_change_handlers = <<"configure", "for_each_display_sync_group">>
    /\ invoked = config_change_handlers
    /\ mutex = "compositor"

====
